---------------------------- MODULE Spec2Model ----------------------------
(***************************************************************************)
(* Model of the Stitch Cam frame pipeline (ESP32, ArduCAM OV2640 + ST7789  *)
(* display): the display bus transport (DEV_Config.cpp), the display       *)
(* driver's solid fill (LCD_Driver.cpp), the frame streaming of            *)
(* LCDManager::displayFrame (lcd_manager.h) and the two FreeRTOS tasks of  *)
(* TaskManager (task_manager.h) with the request flags of UIManager.       *)
(*                                                                         *)
(* Four specifications share the variables:                                *)
(*   SpecBus    arbitrary call sequences on the bus transport              *)
(*   SpecFill   one LCD_ClearWindow / LCD_Clear call, byte by byte         *)
(*   SpecFrame  one LCDManager::displayFrame call, chunk by chunk          *)
(*   Spec       cameraTask and uiTask preempting each other, with the      *)
(*              button ISRs and web handlers setting request flags         *)
(***************************************************************************)
EXTENDS Integers, Sequences, FiniteSets, TLC

VARIABLES
    \* ---- display bus transport (DEV_Config.cpp) ----
    bulk_active,   \* static bool bulk_active
    cs,            \* level of DEV_CS_PIN
    dc,            \* level of DEV_DC_PIN
    txn,           \* SPIlcd transactions begun and not ended
    fx,            \* hardware operations performed by the most recent call
    dmaSize,       \* DMA_BUFFER_SIZE of the build
    dmaBuffer,     \* static uint8_t dmaBuffer[DMA_BUFFER_SIZE]
    \* ---- SpecBus: the calls made so far ----
    callLog,
    \* ---- SpecFill: one solid fill ----
    fill_pc, fillArgs, remaining, wire, window,
    \* ---- SpecFrame / cameraTask: LCDManager::displayFrame ----
    df_pc,         \* position inside displayFrame
    frameDims,     \* CameraConfig::FRAME_WIDTH, FRAME_HEIGHT of the build
    framePtr,      \* the frameBuffer argument: "frameBuffer" or "NULL"
    offset,        \* the loop variable of displayFrame
    chunks,        \* the (offset, size) pairs passed to DEV_SPI_Write_Bulk_Data
    streamed,      \* bytes the current displayFrame call has put on the bus
    \* ---- Spec: the two tasks of TaskManager ----
    cam_pc,        \* position of cameraTask
    ui_pc,         \* position of uiTask
    ui_act,        \* the flag test whose action uiTask is in: "chk_cap", "chk_cd" or "none"
    cd_i,          \* the countdown variable i of handleCountdownCapture
    cj_pc,         \* per task: position inside CameraManager::captureJPEG
    cj_i,          \* per task: the index i of captureJPEG's read loop
    lcdOp,         \* per task: the display operation the task is inside
    isAvailable,   \* CameraManager::isAvailable
    jpegLength,    \* CameraManager::jpegLength
    jpegBuffer,    \* CameraManager::jpegBuffer, each byte as the task that wrote it
    lenBy,         \* the task whose captureJPEG wrote jpegLength
    captureRequested, modeToggleRequested, countdownRequested,
    currentMode, currentStatus, led,
    reqSinceRead,  \* capture requests since the last completed isCaptureRequested
    reqAtCheck,    \* reqSinceRead as the last isCaptureRequested found it
    iterActs,      \* the capture actions uiTask has begun in its current loop iteration
    savedArgs,     \* the (data, length) a StorageManager::savePhoto call was just handed
    actLog,        \* what the last capture action of uiTask has done so far
    \* ---- SpecTimeout: the wait loop of captureJPEG against the clock ----
    timer,         \* position, millis(), startTime and the sensor's done flag
    \* ---- SpecDecode: decodeToFrameBuffer and its pixel callback ----
    decoder,       \* position, frameBuffer and the blocks delivered so far
    \* ---- SpecCamera: CameraManager::init and the operations called after it ----
    camOps,        \* how init ended, and what each later operation did
    \* ---- SpecStorage: StorageManager::savePhoto / deletePhoto ----
    sd,            \* photoCount, the photo numbers on the card, the names saved
    \* ---- SpecStream: WebServerManager::handleStream beside cameraTask ----
    web,           \* position of handleStream, its jpegLen and the bytes sent
    \* ---- SpecSerial: one call of a function that lays 16-bit values out as bytes ----
    ser,           \* the function called, its arguments, the buffer bytes it wrote
    \* ---- SpecDebounce: the polled capture button of stitch_cam_v4 ----
    btn            \* the flag, millis(), lastPress and the position of checkCaptureButton

busVars   == <<bulk_active, cs, dc, txn, fx, dmaSize, dmaBuffer>>
fillVars  == <<fill_pc, fillArgs, remaining, wire, window>>
frameVars == <<df_pc, frameDims, framePtr, offset, chunks, streamed>>
cjVars    == <<cj_pc, cj_i>>
jpegVars  == <<jpegLength, jpegBuffer, lenBy>>
flagVars  == <<captureRequested, modeToggleRequested, countdownRequested, reqSinceRead,
               reqAtCheck>>
uiState   == <<currentMode, currentStatus, led>>
uiLocals  == <<ui_act, cd_i, iterActs, savedArgs, actLog>>
taskVars  == <<cam_pc, ui_pc, uiLocals, cjVars, lcdOp, isAvailable, jpegVars,
               flagVars, uiState>>
auxVars   == <<timer, decoder, camOps, sd, web, ser, btn>>
vars      == <<busVars, callLog, fillVars, frameVars, taskVars, auxVars>>

\* what each specification leaves alone
restOfBus   == <<fillVars, frameVars, taskVars, auxVars>>
restOfFill  == <<callLog, frameVars, taskVars, auxVars>>
restOfFrame == <<callLog, fillVars, taskVars, auxVars>>
restOfTasks == <<callLog, fillVars, auxVars>>

-----------------------------------------------------------------------------
(* Program constants *)

DMA_BUFFER_SIZE == 16384
LCD_WIDTH == 240
LCD_HEIGHT == 320
FRAME_WIDTH == 320
FRAME_HEIGHT == 240
COUNTDOWN_SECONDS == 3
FRAME_BUFFER_SIZE == FRAME_WIDTH * FRAME_HEIGHT * 2
CAPTURE_TIMEOUT_MS == 1000
POLL_MS == 1

(* Bounds of the model *)

MaxCalls == 4      \* bus-transport calls in a SpecBus run
MaxLen == 2        \* largest length passed to a bus write in SpecBus
MaxDma == 5        \* chunk-buffer sizes 1..MaxDma besides DMA_BUFFER_SIZE
MaxW == 3          \* widest window filled in SpecFill
MaxH == 2          \* tallest window filled in SpecFill
MaxFrameW == 3     \* frame widths 1..MaxFrameW besides FRAME_WIDTH
MaxFrameH == 2     \* frame heights 1..MaxFrameH besides FRAME_HEIGHT
MaxJpeg == 1       \* bytes of jpegBuffer modelled (MAX_JPEG_SIZE, scaled down)
MaxReq == 2        \* requests counted between two reads of captureRequested
MaxTick == 3       \* the longest one iteration of a wait loop lasts, in ms
ClockWrap == 4096  \* millis() wraps at this value (2^32 on the device)
MaxPix == 4        \* pixels of frameBuffer
MaxBlocks == 5     \* blocks of a picture; the last one lies outside the frame
MaxOps == 3        \* camera operations called after init
MaxSaves == 3      \* successful saves followed
CountWrap == 4     \* photoCount wraps at this value (2^32 on the device)
MaxBlockW == 2     \* widest block handed to tjpgCallback
MaxBlockH == 2     \* tallest block handed to tjpgCallback
MaxNow == 7        \* millis() runs from 0 to this value, in ticks
BUTTON_DEBOUNCE_MS == 2   \* the debounce interval, in the same ticks

U8(x) == x % 256
U16(x) == x % 65536
Min(a, b) == IF a < b THEN a ELSE b

-----------------------------------------------------------------------------
(* Hardware operations, as entries of fx *)

Pin(p, v)   == [op |-> "pin",   a |-> p,   v |-> v, n |-> 0]
TxnBegin    == [op |-> "begin", a |-> "",  v |-> 0, n |-> 0]
TxnEnd      == [op |-> "end",   a |-> "",  v |-> 0, n |-> 0]
\* SPIlcd.transfer(b): one byte, sent with DC low (a command) or high (data)
Byte(k, b)  == [op |-> "byte",  a |-> k,   v |-> b, n |-> 1]
\* SPIlcd.writeBytes(src + off, len)
Bytes(src, off, len) == [op |-> "bytes", a |-> src, v |-> off, n |-> len]

-----------------------------------------------------------------------------
(* Bus transport: DEV_Config.cpp *)

\* a plausible bug: the bytes go out with no transaction around them
Write_DMA_NoTransaction(src, off, len) ==
    /\ IF len = 0
         THEN fx' = <<>>
         ELSE fx' = <<Bytes(src, off, len)>>
    /\ UNCHANGED <<bulk_active, cs, dc, txn, dmaSize, dmaBuffer>>

DEV_SPI_Write_DMA(src, off, len) ==
    /\ IF len = 0
         THEN fx' = <<>>
         ELSE fx' = <<TxnBegin, Bytes(src, off, len), TxnEnd>>
    /\ UNCHANGED <<bulk_active, cs, dc, txn, dmaSize, dmaBuffer>>

DEV_SPI_Write_Bulk_Start ==
    /\ cs' = 0
    /\ dc' = 1
    /\ txn' = txn + 1
    /\ bulk_active' = TRUE
    /\ fx' = <<Pin("CS", 0), Pin("DC", 1), TxnBegin>>
    /\ UNCHANGED <<dmaSize, dmaBuffer>>

\* a plausible bug: the guard on bulk_active is missing
Bulk_Data_Unguarded(src, off, len) ==
    /\ IF len = 0
         THEN fx' = <<>>
         ELSE fx' = <<Bytes(src, off, len)>>
    /\ UNCHANGED <<bulk_active, cs, dc, txn, dmaSize, dmaBuffer>>

DEV_SPI_Write_Bulk_Data(src, off, len) ==
    /\ IF len = 0 \/ ~bulk_active
         THEN fx' = <<>>
         ELSE fx' = <<Bytes(src, off, len)>>
    /\ UNCHANGED <<bulk_active, cs, dc, txn, dmaSize, dmaBuffer>>

\* a plausible bug: the session is ended whether or not one is active
Bulk_End_Unguarded ==
    /\ txn' = IF txn > 0 THEN txn - 1 ELSE 0
    /\ cs' = 1
    /\ bulk_active' = FALSE
    /\ fx' = <<TxnEnd, Pin("CS", 1)>>
    /\ UNCHANGED <<dc, dmaSize, dmaBuffer>>

DEV_SPI_Write_Bulk_End ==
    IF bulk_active
      THEN /\ txn' = IF txn > 0 THEN txn - 1 ELSE 0
           /\ cs' = 1
           /\ bulk_active' = FALSE
           /\ fx' = <<TxnEnd, Pin("CS", 1)>>
           /\ UNCHANGED <<dc, dmaSize, dmaBuffer>>
      ELSE /\ fx' = <<>>
           /\ UNCHANGED <<bulk_active, cs, dc, txn, dmaSize, dmaBuffer>>

\* the state GPIO_Init and the static initialisers leave
BusInit ==
    /\ bulk_active = FALSE
    /\ cs = 1
    /\ dc = 1
    /\ txn = 0
    /\ fx = <<>>

-----------------------------------------------------------------------------
(* SpecBus: any sequence of at most MaxCalls bus-transport calls *)

Call(name, len) == [op |-> name, n |-> len]

BusCall_Start ==
    /\ Len(callLog) < MaxCalls
    /\ DEV_SPI_Write_Bulk_Start
    /\ callLog' = Append(callLog, Call("DEV_SPI_Write_Bulk_Start", 0))
    /\ UNCHANGED restOfBus

BusCall_Data ==
    /\ Len(callLog) < MaxCalls
    /\ \E len \in 0..MaxLen :
          /\ DEV_SPI_Write_Bulk_Data("frameBuffer", 0, len)
          /\ callLog' = Append(callLog, Call("DEV_SPI_Write_Bulk_Data", len))
    /\ UNCHANGED restOfBus

BusCall_End ==
    /\ Len(callLog) < MaxCalls
    /\ DEV_SPI_Write_Bulk_End
    /\ callLog' = Append(callLog, Call("DEV_SPI_Write_Bulk_End", 0))
    /\ UNCHANGED restOfBus

BusCall_DMA ==
    /\ Len(callLog) < MaxCalls
    /\ \E len \in 0..MaxLen :
          /\ DEV_SPI_Write_DMA("dmaBuffer", 0, len)
          /\ callLog' = Append(callLog, Call("DEV_SPI_Write_DMA", len))
    /\ UNCHANGED restOfBus

Tasks == {"cam", "ui"}

\* actLog before a capture action has begun: status is the sequence of
\* values currentStatus has had since the action was entered, capture and
\* save are the results of its captureJPEG and savePhoto calls, filename
\* tells whether its filename buffer has been written
NoAct == [status |-> <<>>, capture |-> "none", save |-> "none", filename |-> FALSE]

\* the wait loop of captureJPEG not entered
IdleTimer == timer = [pc |-> "off", now |-> 0, start |-> 0, step |-> 0, done |-> FALSE]

\* frameBuffer as the static initialiser leaves it, decodeToFrameBuffer not called
IdleDecoder == decoder = [pc |-> "idle", frameBuffer |-> [i \in 1..MaxPix |-> 0], blocks |-> 0]

\* CameraManager::init not called yet
IdleCamera == camOps = [init |-> "none", log |-> <<>>]

\* photoCount = 0 (static initialiser), StorageManager::init not called
IdleStorage == sd = [photoCount |-> 0, files |-> {}, saved |-> <<>>]

\* no request for /stream being served
IdleWeb == web = [pc |-> "idle", jpegLen |-> 0, sent |-> <<>>]

\* none of the serialising functions called
IdleSerial == ser = [fn |-> "none", args |-> <<>>, written |-> {}]

\* static volatile bool captureRequested = false; static unsigned long
\* lastPress = 0; checkCaptureButton not yet called.  flaggedAt is the time
\* of the latest press, accepted the number of calls that returned true
IdleButton ==
    btn = [pc |-> "idle", captureRequested |-> FALSE, lastPress |-> 0, now |-> 0,
           t |-> 0, flaggedAt |-> 0, accepted |-> 0, ret |-> "none"]

IdleAux ==
    IdleTimer /\ IdleDecoder /\ IdleCamera /\ IdleStorage /\ IdleWeb /\ IdleSerial /\ IdleButton

IdleTasks ==
    /\ cam_pc = "off"
    /\ ui_pc = "off"
    /\ ui_act = "none"
    /\ cd_i = 0
    /\ cj_pc = [t \in Tasks |-> "off"]
    /\ cj_i = [t \in Tasks |-> 0]
    /\ lcdOp = [t \in Tasks |-> "none"]
    /\ isAvailable = FALSE
    /\ jpegLength = 0
    /\ jpegBuffer = [i \in 1..MaxJpeg |-> "none"]
    /\ lenBy = "none"
    /\ captureRequested = FALSE
    /\ modeToggleRequested = FALSE
    /\ countdownRequested = FALSE
    /\ currentMode = "INSTANT"
    /\ currentStatus = "IDLE"
    /\ led = "OFF"
    /\ reqSinceRead = 0
    /\ reqAtCheck = 0
    /\ iterActs = <<>>
    /\ savedArgs = [len |-> 0, lenBy |-> "none", data |-> <<>>]
    /\ actLog = NoAct

IdleFill ==
    /\ fill_pc = "idle"
    /\ fillArgs = [fn |-> "", xs |-> 0, ys |-> 0, xe |-> 0, ye |-> 0, color |-> 0]
    /\ remaining = 0
    /\ wire = <<>>
    /\ window = <<0, 0, 0, 0>>

IdleFrame ==
    /\ df_pc = "idle"
    /\ frameDims = [w |-> FRAME_WIDTH, h |-> FRAME_HEIGHT]
    /\ framePtr = "frameBuffer"
    /\ offset = 0
    /\ chunks = <<>>
    /\ streamed = 0

InitBus ==
    /\ BusInit
    /\ dmaSize = DMA_BUFFER_SIZE
    /\ dmaBuffer = <<>>
    /\ callLog = <<>>
    /\ IdleFill
    /\ IdleFrame
    /\ IdleTasks
    /\ IdleAux

NextBus == BusCall_Start \/ BusCall_Data \/ BusCall_End \/ BusCall_DMA

SpecBus == InitBus /\ [][NextBus]_vars

-----------------------------------------------------------------------------
(* Display controller driver: LCD_Driver.cpp *)

\* a plausible bug: chip-select is not released
LCD_WriteReg_NoRelease(da) ==
    <<Pin("CS", 0), Pin("DC", 0), TxnBegin, Byte("cmd", U8(da)), TxnEnd>>

LCD_WriteReg_fx(da) ==
    <<Pin("CS", 0), Pin("DC", 0), TxnBegin, Byte("cmd", U8(da)), TxnEnd, Pin("CS", 1)>>

LCD_WriteData_Byte_fx(da) ==
    <<Pin("CS", 0), Pin("DC", 1), TxnBegin, Byte("data", U8(da)), TxnEnd, Pin("CS", 1)>>

\* a plausible bug: the low byte taken for the high byte
Hi_LowByte(x) == U16(x) % 256

\* UWORD >> 8
Hi(x) == U16(x) \div 256

\* UBYTE i = (da >> 8) & 0xff; ... transfer(i); transfer(da);
LCD_WriteData_Word_fx(da) ==
    <<Pin("CS", 0), Pin("DC", 1), TxnBegin, Byte("data", U8(Hi(da))),
      Byte("data", U8(da)), TxnEnd, Pin("CS", 1)>>

\* HORIZONTAL is 0; both branches of the source issue the same sequence
LCD_SetCursor_fx(Xstart, Ystart, Xend, Yend) ==
    LCD_WriteReg_fx(42)
      \o LCD_WriteData_Byte_fx(Hi(Xstart)) \o LCD_WriteData_Byte_fx(Xstart)
      \o LCD_WriteData_Byte_fx(Hi(Xend)) \o LCD_WriteData_Byte_fx(Xend)
      \o LCD_WriteReg_fx(43)
      \o LCD_WriteData_Byte_fx(Hi(Ystart)) \o LCD_WriteData_Byte_fx(Ystart)
      \o LCD_WriteData_Byte_fx(Hi(Yend)) \o LCD_WriteData_Byte_fx(Yend)
      \o LCD_WriteReg_fx(44)

LCD_SetCursor(Xstart, Ystart, Xend, Yend) ==
    /\ fx' = LCD_SetCursor_fx(Xstart, Ystart, Xend, Yend)
    /\ cs' = 1
    /\ dc' = 0
    /\ UNCHANGED <<bulk_active, txn, dmaSize>>

\* the address window the controller holds after the operations of f: the
\* parameter bytes of the column (0x2A) and row (0x2B) commands, high byte
\* first, as <<x0, y0, x1, y1>>
DataOf(f) == SelectSeq(f, LAMBDA e : e.op = "byte" /\ e.a = "data")
WindowOf(f) ==
    LET d == DataOf(f) IN
    <<d[1].v * 256 + d[2].v, d[5].v * 256 + d[6].v,
      d[3].v * 256 + d[4].v, d[7].v * 256 + d[8].v>>

\* for (uint16_t i = 0; i < DMA_BUFFER_SIZE; i += 2)
\*     { dmaBuffer[i] = colorHigh; dmaBuffer[i + 1] = colorLow; }
\* as it leaves dmaBuffer[0 .. size-1] (1-based here)
FillPattern(size, colorHigh, colorLow) ==
    [k \in 1..size |-> IF (k - 1) % 2 = 0 THEN colorHigh ELSE colorLow]

\* the bytes a transfer of fx puts on the wire from dmaBuffer
FromDma(f, buf) ==
    LET w == SelectSeq(f, LAMBDA e : e.op = "bytes" /\ e.a = "dmaBuffer") IN
    IF w = <<>> THEN <<>> ELSE SubSeq(buf, w[1].v + 1, w[1].v + w[1].n)

-----------------------------------------------------------------------------
(* SpecFill: one call of LCD_ClearWindow or LCD_Clear, in a build whose    *)
(* DMA_BUFFER_SIZE is dmaSize.                                             *)

Colors == {0, 4660, 63488, 255}    \* 0x0000, 0x1234, 0xF800, 0x00FF
DmaSizes == (1..MaxDma) \cup {DMA_BUFFER_SIZE}

\* Xend and Yend are exclusive: the window is [Xstart, Xend-1] x [Ystart, Yend-1]
WindowCalls ==
    { [fn |-> "LCD_ClearWindow", xs |-> xs, ys |-> ys, xe |-> xs + w, ye |-> ys + h,
       color |-> c] :
        xs \in {0, LCD_WIDTH - MaxW}, ys \in {0, LCD_HEIGHT - MaxH},
        w \in 1..MaxW, h \in 1..MaxH, c \in Colors }

ClearCalls ==
    { [fn |-> "LCD_Clear", xs |-> 0, ys |-> 0, xe |-> LCD_WIDTH, ye |-> LCD_HEIGHT,
       color |-> c] : c \in {4660} }

FillTotalBytes(a) == ((a.xe - a.xs) * (a.ye - a.ys)) * 2

Fill_SetCursor ==
    /\ fill_pc = "call"
    /\ remaining' = FillTotalBytes(fillArgs)
    /\ LCD_SetCursor(fillArgs.xs, fillArgs.ys, fillArgs.xe - 1, fillArgs.ye - 1)
    /\ window' = WindowOf(fx')
    /\ fill_pc' = "fillbuf"
    /\ UNCHANGED <<dmaBuffer, fillArgs, wire, restOfFill>>

\* the fill loop writes dmaBuffer[DMA_BUFFER_SIZE] when the size is odd: one
\* byte past the array, which the build may place on padding (no visible
\* effect) or on the static that follows it in DEV_Config.cpp, bulk_active
Fill_Buffer ==
    /\ fill_pc = "fillbuf"
    /\ cs' = 0
    /\ dc' = 1
    /\ fx' = <<Pin("CS", 0), Pin("DC", 1)>>
    /\ dmaBuffer' = FillPattern(dmaSize, Hi(fillArgs.color), fillArgs.color % 256)
    /\ bulk_active' \in IF dmaSize % 2 = 1
                          THEN {bulk_active, (fillArgs.color % 256) # 0}
                          ELSE {bulk_active}
    /\ fill_pc' = "loop"
    /\ UNCHANGED <<txn, dmaSize, fillArgs, remaining, wire, window, restOfFill>>

Fill_Chunk ==
    /\ fill_pc = "loop"
    /\ remaining > 0
    /\ LET chunkSize == IF remaining > dmaSize THEN dmaSize ELSE remaining IN
          /\ DEV_SPI_Write_DMA("dmaBuffer", 0, chunkSize)
          /\ wire' = wire \o FromDma(fx', dmaBuffer)
          /\ remaining' = remaining - chunkSize
    /\ UNCHANGED <<fill_pc, fillArgs, window, restOfFill>>

Fill_End ==
    /\ fill_pc = "loop"
    /\ remaining = 0
    /\ cs' = 1
    /\ fx' = <<Pin("CS", 1)>>
    /\ fill_pc' = "done"
    /\ UNCHANGED <<bulk_active, dc, txn, dmaSize, dmaBuffer>>
    /\ UNCHANGED <<fillArgs, remaining, wire, window, restOfFill>>

InitFill ==
    /\ BusInit
    /\ dmaSize \in DmaSizes
    /\ dmaBuffer = [k \in 1..dmaSize |-> 0]
    /\ callLog = <<>>
    /\ fill_pc = "call"
    /\ fillArgs \in WindowCalls \cup
                     (IF dmaSize = DMA_BUFFER_SIZE THEN ClearCalls ELSE {})
    /\ remaining = 0
    /\ wire = <<>>
    /\ window = <<0, 0, 0, 0>>
    /\ IdleFrame
    /\ IdleTasks
    /\ IdleAux

NextFill == Fill_SetCursor \/ Fill_Buffer \/ Fill_Chunk \/ Fill_End

SpecFill == InitFill /\ [][NextFill]_vars

\* C3: when a solid fill has returned, the data bytes sent after the
\* address-window command are exactly W*H*2, and every consecutive pair is
\* (colour >> 8, colour & 0xFF), whatever the chunk-buffer size of the build.
C3_FillExact ==
    fill_pc = "done" =>
        LET n == (fillArgs.xe - fillArgs.xs) * (fillArgs.ye - fillArgs.ys) IN
        /\ Len(wire) = n * 2
        /\ \A i \in 1..n : /\ wire[2 * i - 1] = fillArgs.color \div 256
                           /\ wire[2 * i] = fillArgs.color % 256

\* C3, as the code has it: the same, in a build whose chunk-buffer size is even
C3_FillExactEvenSize ==
    dmaSize % 2 = 0 => C3_FillExact

\* C3, the part that holds for every size: the byte count is exact
C3_FillCount ==
    fill_pc = "done" =>
        Len(wire) = (fillArgs.xe - fillArgs.xs) * (fillArgs.ye - fillArgs.ys) * 2

-----------------------------------------------------------------------------
(* LCDManager::displayFrame: lcd_manager.h                                 *)
(* offset, totalBytes and chunkSize are uint32_t; the values of the model  *)
(* stay far below 2^32, so the arithmetic is exact.                        *)

FrameTotalBytes == frameDims.w * frameDims.h * 2

\* the bytes a transfer of fx puts on the wire from frameBuffer
SentFromFrame(f) ==
    LET w == SelectSeq(f, LAMBDA e : e.op = "bytes" /\ e.a = "frameBuffer") IN
    IF w = <<>> THEN 0 ELSE w[1].n

\* if (!frameBuffer) return;  LCD_SetCursor(0, 0, FRAME_WIDTH - 1, FRAME_HEIGHT - 1);
DF_SetCursor ==
    /\ df_pc = "call"
    /\ chunks' = <<>>
    /\ streamed' = 0
    /\ offset' = 0
    /\ IF framePtr = "NULL"
         THEN /\ df_pc' = "done"
              /\ fx' = <<>>
              /\ UNCHANGED <<bulk_active, cs, dc, txn, dmaSize>>
         ELSE /\ df_pc' = "start"
              /\ LCD_SetCursor(0, 0, frameDims.w - 1, frameDims.h - 1)
    /\ UNCHANGED <<dmaBuffer, frameDims, framePtr>>

DF_Start ==
    /\ df_pc = "start"
    /\ DEV_SPI_Write_Bulk_Start
    /\ df_pc' = "loop"
    /\ UNCHANGED <<frameDims, framePtr, offset, chunks, streamed>>

\* a plausible bug: offset <= totalBytes
DF_LoopCond_Inclusive(off, totalBytes) == off <= totalBytes

\* for (...; offset < totalBytes; ...)
DF_LoopCond(off, totalBytes) == off < totalBytes

\* a plausible bug: the last chunk is not clamped to what remains
DF_ChunkSize_Unclamped(chunkSize, totalBytes, off) == chunkSize

\* uint32_t size = min(chunkSize, totalBytes - offset);
DF_ChunkSize(chunkSize, totalBytes, off) == Min(chunkSize, totalBytes - off)

DF_Chunk ==
    /\ df_pc = "loop"
    /\ DF_LoopCond(offset, FrameTotalBytes)
    /\ LET size == DF_ChunkSize(dmaSize, FrameTotalBytes, offset) IN
          /\ DEV_SPI_Write_Bulk_Data("frameBuffer", offset, size)
          /\ chunks' = Append(chunks, [off |-> offset, len |-> size])
          /\ streamed' = streamed + SentFromFrame(fx')
    /\ offset' = offset + dmaSize
    /\ UNCHANGED <<df_pc, frameDims, framePtr>>

DF_End ==
    /\ df_pc = "loop"
    /\ ~DF_LoopCond(offset, FrameTotalBytes)
    /\ DEV_SPI_Write_Bulk_End
    /\ df_pc' = "done"
    /\ UNCHANGED <<frameDims, framePtr, offset, chunks, streamed>>

-----------------------------------------------------------------------------
(* SpecFrame: one displayFrame call, for the build's frame and chunk sizes *)
(* and for small ones.                                                     *)

FrameConfigs ==
    {<<FRAME_WIDTH, FRAME_HEIGHT, DMA_BUFFER_SIZE>>}
      \cup ((1..MaxFrameW) \X (1..MaxFrameH) \X DmaSizes)

Frame_SetCursor == DF_SetCursor /\ UNCHANGED restOfFrame
Frame_Start == DF_Start /\ UNCHANGED restOfFrame
Frame_Chunk == DF_Chunk /\ UNCHANGED restOfFrame
Frame_End == DF_End /\ UNCHANGED restOfFrame

InitFrame ==
    /\ BusInit
    /\ \E c \in FrameConfigs :
          /\ frameDims = [w |-> c[1], h |-> c[2]]
          /\ dmaSize = c[3]
    /\ dmaBuffer = <<>>
    /\ callLog = <<>>
    /\ IdleFill
    /\ df_pc = "call"
    /\ framePtr \in {"frameBuffer", "NULL"}
    /\ offset = 0
    /\ chunks = <<>>
    /\ streamed = 0
    /\ IdleTasks
    /\ IdleAux

NextFrame == Frame_SetCursor \/ Frame_Start \/ Frame_Chunk \/ Frame_End

SpecFrame == InitFrame /\ [][NextFrame]_vars

RealFrame ==
    /\ frameDims = [w |-> FRAME_WIDTH, h |-> FRAME_HEIGHT]
    /\ dmaSize = DMA_BUFFER_SIZE
    /\ framePtr = "frameBuffer"

\* C4 as stated: when displayFrame has returned for the 320x240 frame with
\* the 16384 byte transfer buffer, it has streamed exactly 153600 bytes,
\* every chunk but the last was 16384 bytes and the last was 9216 bytes.
C4_AsStated ==
    (df_pc = "done" /\ RealFrame) =>
        /\ streamed = 153600
        /\ chunks # <<>>
        /\ \A i \in 1..(Len(chunks) - 1) : chunks[i].len = 16384
        /\ chunks[Len(chunks)].len = 9216

\* C4 as amended: the same, with a last chunk of 153600 - 9 * 16384 = 6144
\* bytes, after nine chunks of 16384 bytes.
C4_EndToEndChunking ==
    (df_pc = "done" /\ RealFrame) =>
        /\ streamed = 153600
        /\ Len(chunks) = 10
        /\ \A i \in 1..9 : chunks[i].len = 16384
        /\ chunks[10].len = 6144

\* the 320x240 frame has been streamed in ten chunks
C4_Witness ==
    df_pc = "done" /\ RealFrame /\ Len(chunks) = 10 /\ streamed = 153600

\* C5: the chunks displayFrame passes to DEV_SPI_Write_Bulk_Data are never
\* empty, each is min(chunkSize, remaining) bytes, the first starts at 0,
\* each starts where the one before it ended, none reaches past totalBytes,
\* and when displayFrame has returned they end at totalBytes.
C5_StreamExact ==
    framePtr = "frameBuffer" =>
        /\ \A i \in 1..Len(chunks) :
              /\ chunks[i].len >= 1
              /\ chunks[i].len = Min(dmaSize, FrameTotalBytes - chunks[i].off)
              /\ chunks[i].off = IF i = 1 THEN 0
                                 ELSE chunks[i - 1].off + chunks[i - 1].len
              /\ chunks[i].off + chunks[i].len <= FrameTotalBytes
        /\ df_pc = "done" =>
              /\ chunks # <<>>
              /\ chunks[Len(chunks)].off + chunks[Len(chunks)].len = FrameTotalBytes
              /\ streamed = FrameTotalBytes

\* a frame streamed in several chunks, the last one shorter than the buffer
C5_Witness ==
    /\ df_pc = "done" /\ framePtr = "frameBuffer"
    /\ Len(chunks) >= 3
    /\ chunks[Len(chunks)].len < dmaSize
    /\ dmaSize > 1

\* whether a bulk session is open after the calls of log: the last
\* DEV_SPI_Write_Bulk_Start / _End call in it is a Start
RECURSIVE SessionOpen(_)
SessionOpen(log) ==
    IF log = <<>> THEN FALSE
    ELSE LET last == log[Len(log)].op IN
         IF last = "DEV_SPI_Write_Bulk_Start" THEN TRUE
         ELSE IF last = "DEV_SPI_Write_Bulk_End" THEN FALSE
         ELSE SessionOpen(SubSeq(log, 1, Len(log) - 1))

NewCall(name) ==
    /\ Len(callLog') = Len(callLog) + 1
    /\ callLog'[Len(callLog')].op = name

\* C1: a DEV_SPI_Write_Bulk_Data call made while no bulk session is open
\* (none started yet, or the last one ended) puts no byte on the display
\* bus, performs no pin or transaction operation, leaves bulk_active false
\* and chip-select as it was, and returns (the call completes as a step).
C1_BulkDataOutsideSession ==
    [][ (NewCall("DEV_SPI_Write_Bulk_Data") /\ ~SessionOpen(callLog))
          => /\ fx' = <<>>
             /\ bulk_active' = FALSE
             /\ cs' = cs /\ dc' = dc /\ txn' = txn ]_vars

\* a Bulk_Data call of non-zero length made after a session was ended
C1_Witness ==
    /\ Len(callLog) >= 3
    /\ callLog[Len(callLog)].op = "DEV_SPI_Write_Bulk_Data"
    /\ callLog[Len(callLog)].n > 0
    /\ callLog[Len(callLog) - 1].op = "DEV_SPI_Write_Bulk_End"
    /\ callLog[Len(callLog) - 2].op = "DEV_SPI_Write_Bulk_Start"
    /\ fx = <<>>

\* C2: DEV_SPI_Write_Bulk_End ends the transaction and raises chip-select
\* exactly once when a session is open, and a call with no open session
\* (the second of two in a row) performs no bus or pin operation and
\* changes no state.
C2_IdempotentEnd ==
    [][ NewCall("DEV_SPI_Write_Bulk_End")
          => IF SessionOpen(callLog)
               THEN /\ fx' = <<TxnEnd, Pin("CS", 1)>>
                    /\ cs' = 1 /\ bulk_active' = FALSE
               ELSE /\ fx' = <<>>
                    /\ UNCHANGED <<bulk_active, cs, dc, txn>> ]_vars

\* Start, End, End: the second End found no session and did nothing
C2_Witness ==
    /\ Len(callLog) = 3
    /\ callLog[1].op = "DEV_SPI_Write_Bulk_Start"
    /\ callLog[2].op = "DEV_SPI_Write_Bulk_End"
    /\ callLog[3].op = "DEV_SPI_Write_Bulk_End"
    /\ fx = <<>> /\ cs = 1 /\ txn = 0 /\ ~bulk_active

-----------------------------------------------------------------------------
(* The two tasks of task_manager.h.  cameraTask and uiTask are created on  *)
(* the same core with the same priority (config.h TaskConfig) and nothing  *)
(* in the source locks anything, so the scheduler may switch between them  *)
(* at any step: every step below is one action, and Next interleaves them. *)

\* UIManager::updateLED
LedFor(status) ==
    CASE status = "IDLE" -> "GREEN"
      [] status = "CAPTURING" -> "RED"
      [] status = "SAVING" -> "YELLOW"
      [] status = "STREAMING" -> "CYAN"
      [] status = "ERROR" -> "RED"

\* a plausible bug: the LED follows the new status, currentStatus is not stored
setStatus_NotStored(status) ==
    /\ UNCHANGED currentStatus
    /\ led' = LedFor(status)

\* UIManager::setStatus
setStatus(status) ==
    /\ currentStatus' = status
    /\ led' = LedFor(status)

\* LCD_Clear up to the point where the fill is about to be streamed: the
\* window is addressed and CS is held low with DC high
LCD_Clear_Enter ==
    /\ fx' = LCD_SetCursor_fx(0, 0, LCD_WIDTH - 1, LCD_HEIGHT - 1)
               \o <<Pin("CS", 0), Pin("DC", 1)>>
    /\ cs' = 0
    /\ dc' = 1
    /\ UNCHANGED <<bulk_active, txn, dmaSize, dmaBuffer>>

\* the rest of LCD_Clear: the chunks go out through DEV_SPI_Write_DMA, the
\* last of them carrying what remains, and CS is released
LCD_Clear_Leave ==
    LET total == LCD_WIDTH * LCD_HEIGHT * 2
        last == IF total % dmaSize = 0 THEN dmaSize ELSE total % dmaSize IN
    /\ fx' = <<TxnBegin, Bytes("dmaBuffer", 0, last), TxnEnd, Pin("CS", 1)>>
    /\ cs' = 1
    /\ UNCHANGED <<bulk_active, dc, txn, dmaSize, dmaBuffer>>

\* a text or rectangle overlay draws pixel by pixel (LCD_SetUWORD): the
\* cursor is set on the pixel ...
Paint_Enter ==
    /\ LCD_SetCursor(0, 0, 0, 0)
    /\ UNCHANGED dmaBuffer

\* ... and its colour is written with LCD_WriteData_Word
Paint_Leave ==
    /\ fx' = <<Pin("CS", 0), Pin("DC", 1), TxnBegin, Byte("data", 0),
               Byte("data", 0), TxnEnd, Pin("CS", 1)>>
    /\ cs' = 1
    /\ dc' = 1
    /\ UNCHANGED <<bulk_active, txn, dmaSize, dmaBuffer>>

-----------------------------------------------------------------------------
(* CameraManager::captureJPEG, called by task t.  jpegBuffer, jpegLength   *)
(* are static members shared by every caller; jpegBuffer[i] holds the name *)
(* of the task whose capture wrote byte i, lenBy the one that last wrote   *)
(* jpegLength.                                                             *)

TaskAtCapture(t) == IF t = "cam" THEN cam_pc = "capture" ELSE ui_pc = "capture"

\* a plausible bug: the caller goes on whatever captureJPEG returned
CJ_Return_Unchecked(t, ok) ==
    IF t = "cam"
      THEN cam_pc' = "decode" /\ UNCHANGED ui_pc
      ELSE ui_pc' = "saving" /\ UNCHANGED cam_pc

\* where each caller goes with the result of captureJPEG
CJ_Return(t, ok) ==
    IF t = "cam"
      THEN /\ cam_pc' = IF ok THEN "decode" ELSE "delay"
           /\ UNCHANGED ui_pc
      ELSE /\ ui_pc' = IF ok THEN "saving" ELSE "err_capture"
           /\ UNCHANGED cam_pc

\* a plausible bug: jpegLength is reset on entry, before the wait
CJ_Start_ResetsLength(t) ==
    /\ TaskAtCapture(t)
    /\ cj_pc[t] = "off"
    /\ jpegLength' = 0
    /\ \E done \in BOOLEAN :
          IF isAvailable /\ done
            THEN /\ cj_pc' = [cj_pc EXCEPT ![t] = "len"]
                 /\ UNCHANGED <<cam_pc, ui_pc>>
            ELSE /\ CJ_Return(t, FALSE)
                 /\ UNCHANGED cj_pc
    /\ UNCHANGED <<cj_i, jpegBuffer, lenBy>>

\* if (!isAvailable) return false;  flush_fifo, clear_fifo_flag, start_capture;
\* while (!get_bit(CAP_DONE)) { if (millis() - startTime > 1000) return false; delay(1); }
CJ_Start(t) ==
    /\ TaskAtCapture(t)
    /\ cj_pc[t] = "off"
    /\ \E done \in BOOLEAN :
          IF isAvailable /\ done
            THEN /\ cj_pc' = [cj_pc EXCEPT ![t] = "len"]
                 /\ UNCHANGED <<cam_pc, ui_pc>>
            ELSE /\ CJ_Return(t, FALSE)
                 /\ UNCHANGED cj_pc
    /\ UNCHANGED <<cj_i, jpegVars>>

\* jpegLength = read_fifo_length();
\* if (jpegLength == 0 || jpegLength > MAX_JPEG_SIZE) return false;
\* CS_LOW, set_fifo_burst
CJ_ReadLen(t) ==
    /\ cj_pc[t] = "len"
    /\ \E n \in 0..(MaxJpeg + 1) :
          /\ jpegLength' = n
          /\ lenBy' = t
          /\ IF n = 0 \/ n > MaxJpeg
               THEN /\ cj_pc' = [cj_pc EXCEPT ![t] = "off"]
                    /\ CJ_Return(t, FALSE)
               ELSE /\ cj_pc' = [cj_pc EXCEPT ![t] = "burst"]
                    /\ UNCHANGED <<cam_pc, ui_pc>>
    /\ cj_i' = [cj_i EXCEPT ![t] = 0]
    /\ UNCHANGED jpegBuffer

\* for (i = 0; i < jpegLength; i++) jpegBuffer[i] = SPI.transfer(0x00);
\* jpegLength is volatile: the bound is the value it has when it is read.
\* A write at an index past the end of jpegBuffer lands outside the array,
\* in memory the model does not hold.
CJ_Byte(t) ==
    /\ cj_pc[t] = "burst"
    /\ cj_i[t] < jpegLength
    /\ jpegBuffer' = IF cj_i[t] < MaxJpeg
                      THEN [jpegBuffer EXCEPT ![cj_i[t] + 1] = t]
                      ELSE jpegBuffer
    /\ cj_i' = [cj_i EXCEPT ![t] = cj_i[t] + 1]
    /\ UNCHANGED <<cj_pc, cam_pc, ui_pc, jpegLength, lenBy>>

\* CS_HIGH; return true;
CJ_Done(t) ==
    /\ cj_pc[t] = "burst"
    /\ cj_i[t] >= jpegLength
    /\ cj_pc' = [cj_pc EXCEPT ![t] = "off"]
    /\ CJ_Return(t, TRUE)
    /\ UNCHANGED <<cj_i, jpegVars>>

\* what a captureJPEG step of either task leaves alone
restOfCapture ==
    <<busVars, frameVars, restOfTasks, uiLocals, lcdOp, isAvailable, flagVars, uiState>>

-----------------------------------------------------------------------------
(* cameraTask *)

restOfCam == <<restOfTasks, ui_pc, uiLocals, cjVars, isAvailable, jpegVars, flagVars, uiState>>

\* LCDManager::displayBootScreen: clear(0x0318), then the texts
Cam_Boot_Enter ==
    /\ cam_pc = "boot"
    /\ LCD_Clear_Enter
    /\ lcdOp' = [lcdOp EXCEPT !["cam"] = "displayBootScreen"]
    /\ cam_pc' = "boot_end"
    /\ UNCHANGED <<frameVars, restOfCam>>

\* ... delay(1000)
Cam_Boot_Leave ==
    /\ cam_pc = "boot_end"
    /\ LCD_Clear_Leave
    /\ lcdOp' = [lcdOp EXCEPT !["cam"] = "none"]
    /\ cam_pc' = "capture"
    /\ UNCHANGED <<frameVars, restOfCam>>

Cam_Capture ==
    /\ \/ CJ_Start("cam") \/ CJ_ReadLen("cam")
       \/ CJ_Byte("cam") \/ CJ_Done("cam")
    /\ UNCHANGED restOfCapture

\* CameraManager::decodeToFrameBuffer: if (jpegLength == 0) return false;
\* otherwise the decoder's verdict on the bytes
Cam_Decode ==
    /\ cam_pc = "decode"
    /\ \E ok \in BOOLEAN :
          IF ok /\ jpegLength # 0
            THEN /\ cam_pc' = "display"
                 /\ df_pc' = "call"
            ELSE /\ cam_pc' = "delay"
                 /\ UNCHANGED df_pc
    /\ UNCHANGED <<busVars, frameDims, framePtr, offset, chunks, streamed, lcdOp, restOfCam>>

\* LCDManager::displayFrame(CameraManager::getFrameBuffer())
Cam_DisplayFrame ==
    /\ cam_pc = "display"
    /\ DF_SetCursor \/ DF_Start \/ DF_Chunk \/ DF_End
    /\ UNCHANGED <<cam_pc, lcdOp, restOfCam>>

\* LCDManager::displayMode(UIManager::getCurrentMode())
Cam_Mode_Enter ==
    /\ cam_pc = "display"
    /\ df_pc = "done"
    /\ df_pc' = "idle"
    /\ Paint_Enter
    /\ lcdOp' = [lcdOp EXCEPT !["cam"] = "displayMode"]
    /\ cam_pc' = "mode_end"
    /\ UNCHANGED <<frameDims, framePtr, offset, chunks, streamed, restOfCam>>

Cam_Mode_Leave ==
    /\ cam_pc = "mode_end"
    /\ Paint_Leave
    /\ lcdOp' = [lcdOp EXCEPT !["cam"] = "none"]
    /\ cam_pc' = "delay"
    /\ UNCHANGED <<frameVars, restOfCam>>

\* vTaskDelay(pdMS_TO_TICKS(10))
Cam_Delay ==
    /\ cam_pc = "delay"
    /\ cam_pc' = "capture"
    /\ UNCHANGED <<busVars, frameVars, lcdOp, restOfCam>>

-----------------------------------------------------------------------------
(* The writers of the request flags: UIManager::request*, called by the    *)
(* web handlers, and the button interrupt handlers.  reqSinceRead counts   *)
(* the capture requests made since uiTask last completed a call of         *)
(* isCaptureRequested; reqAtCheck is that count as the call found it, kept *)
(* until the action the call triggers has begun.                           *)

restOfRequest ==
    <<busVars, frameVars, restOfTasks, cam_pc, ui_pc, uiLocals, cjVars, lcdOp,
      isAvailable, jpegVars, uiState>>

\* WebServerManager::handleCapture -> UIManager::requestCapture
requestCapture ==
    /\ reqSinceRead < MaxReq
    /\ captureRequested' = TRUE
    /\ reqSinceRead' = reqSinceRead + 1
    /\ UNCHANGED <<modeToggleRequested, countdownRequested, reqAtCheck, restOfRequest>>

\* the button press, when the debounce interval has passed
captureButtonISR ==
    /\ reqSinceRead < MaxReq
    /\ captureRequested' = TRUE
    /\ reqSinceRead' = reqSinceRead + 1
    /\ UNCHANGED <<modeToggleRequested, countdownRequested, reqAtCheck, restOfRequest>>

\* WebServerManager::handleToggleMode -> requestModeToggle, and modeButtonISR
requestModeToggle ==
    /\ modeToggleRequested' = TRUE
    /\ UNCHANGED <<captureRequested, countdownRequested, reqSinceRead, reqAtCheck, restOfRequest>>

\* WebServerManager::handleCountdownStart -> requestCountdown
requestCountdown ==
    /\ countdownRequested' = TRUE
    /\ UNCHANGED <<captureRequested, modeToggleRequested, reqSinceRead, reqAtCheck, restOfRequest>>

-----------------------------------------------------------------------------
(* uiTask.  is*Requested reads the flag and, when it is set, clears it in  *)
(* a second statement: two steps.  iterActs lists the capture actions     *)
(* (handleCapture, handleCountdownCapture) the current iteration of the    *)
(* loop has begun.                                                         *)

restOfUI == <<restOfTasks, frameVars, cam_pc, cjVars, isAvailable, jpegVars>>

\* the statement that follows each of the three ifs of the loop body
AfterCheck_Looping(check) ==
    CASE check = "chk_mode" -> "chk_cap"
      [] check = "chk_cap" -> "chk_cd"
      [] check = "chk_cd" -> "chk_cap"

AfterCheck(check) ==
    CASE check = "chk_mode" -> "chk_cap"
      [] check = "chk_cap" -> "chk_cd"
      [] check = "chk_cd" -> "delay"

\* a plausible bug: the flag is left as it was found
Flag_NotCleared(flag) == flag

\* flag = false;
Flag_Cleared(flag) == FALSE

\* if (modeToggleRequested) ...
UI_ReadMode ==
    /\ ui_pc = "chk_mode"
    /\ ui_pc' = IF modeToggleRequested THEN "clr_mode" ELSE AfterCheck("chk_mode")
    /\ UNCHANGED <<busVars, uiLocals, lcdOp, flagVars, uiState, restOfUI>>

\* ... { modeToggleRequested = false; return true; }
UI_ClearMode ==
    /\ ui_pc = "clr_mode"
    /\ modeToggleRequested' = Flag_Cleared(modeToggleRequested)
    /\ ui_pc' = "toggle"
    /\ UNCHANGED <<busVars, uiLocals, lcdOp, captureRequested, countdownRequested,
                   reqSinceRead, reqAtCheck, uiState, restOfUI>>

\* a plausible bug: the mode is set, not flipped
UI_ToggleMode_Set ==
    /\ ui_pc = "toggle"
    /\ currentMode' = "COUNTDOWN"
    /\ led' = LedFor(currentStatus)
    /\ Paint_Enter
    /\ lcdOp' = [lcdOp EXCEPT !["ui"] = "displayMode"]
    /\ ui_pc' = "mode_end"
    /\ UNCHANGED <<uiLocals, flagVars, currentStatus, restOfUI>>

\* UIManager::toggleMode (setLED(BLUE), delay(200), updateLED), then
\* LCDManager::displayMode begins
UI_ToggleMode ==
    /\ ui_pc = "toggle"
    /\ currentMode' = IF currentMode = "INSTANT" THEN "COUNTDOWN" ELSE "INSTANT"
    /\ led' = LedFor(currentStatus)
    /\ Paint_Enter
    /\ lcdOp' = [lcdOp EXCEPT !["ui"] = "displayMode"]
    /\ ui_pc' = "mode_end"
    /\ UNCHANGED <<uiLocals, flagVars, currentStatus, restOfUI>>

UI_Mode_Leave ==
    /\ ui_pc = "mode_end"
    /\ Paint_Leave
    /\ lcdOp' = [lcdOp EXCEPT !["ui"] = "none"]
    /\ ui_pc' = AfterCheck("chk_mode")
    /\ UNCHANGED <<uiLocals, flagVars, uiState, restOfUI>>

\* if (captureRequested) ...
UI_ReadCapture ==
    /\ ui_pc = "chk_cap"
    /\ reqAtCheck' = reqSinceRead
    /\ IF captureRequested
         THEN /\ ui_pc' = "clr_cap"
              /\ UNCHANGED reqSinceRead
         ELSE /\ ui_pc' = AfterCheck("chk_cap")
              /\ reqSinceRead' = 0
    /\ UNCHANGED <<busVars, uiLocals, lcdOp, captureRequested, modeToggleRequested,
                   countdownRequested, uiState, restOfUI>>

\* ... { captureRequested = false; return true; }
UI_ClearCapture ==
    /\ ui_pc = "clr_cap"
    /\ captureRequested' = Flag_Cleared(captureRequested)
    /\ reqSinceRead' = 0
    /\ ui_pc' = "hc_begin"
    /\ UNCHANGED <<busVars, uiLocals, lcdOp, modeToggleRequested, countdownRequested,
                   reqAtCheck, uiState, restOfUI>>

\* handleCapture: setStatus(CAPTURING); setLED(RED);
UI_HandleCapture ==
    /\ ui_pc = "hc_begin"
    /\ setStatus("CAPTURING")
    /\ ui_act' = "chk_cap"
    /\ iterActs' = Append(iterActs, "capture")
    /\ reqAtCheck' = 0
    /\ actLog' = [NoAct EXCEPT !.status = <<currentStatus, currentStatus'>>]
    /\ ui_pc' = "capture"
    /\ UNCHANGED <<busVars, cd_i, savedArgs, lcdOp, captureRequested, modeToggleRequested,
                   countdownRequested, reqSinceRead, currentMode, restOfUI>>

\* if (!CameraManager::captureJPEG()) ...
UI_Capture ==
    /\ \/ CJ_Start("ui") \/ CJ_ReadLen("ui")
       \/ CJ_Byte("ui") \/ CJ_Done("ui")
    /\ UNCHANGED restOfCapture

\* setStatus(ERROR); LCDManager::displayError(...) begins with clear(RED)
UI_Error_Enter ==
    /\ ui_pc \in {"err_capture", "err_save"}
    /\ setStatus("ERROR")
    /\ LCD_Clear_Enter
    /\ lcdOp' = [lcdOp EXCEPT !["ui"] = "displayError"]
    /\ ui_pc' = "err_end"
    /\ savedArgs' = [len |-> 0, lenBy |-> "none", data |-> <<>>]
    /\ actLog' = [actLog EXCEPT !.status = Append(@, currentStatus'),
                                !.capture = IF ui_pc = "err_capture" THEN "fail" ELSE @]
    /\ UNCHANGED <<ui_act, cd_i, iterActs, flagVars, currentMode, restOfUI>>

\* ... the fill and the texts; delay(1000); setStatus(IDLE); the action returns
UI_Error_Leave ==
    /\ ui_pc = "err_end"
    /\ LCD_Clear_Leave
    /\ lcdOp' = [lcdOp EXCEPT !["ui"] = "none"]
    /\ setStatus("IDLE")
    /\ ui_pc' = AfterCheck(ui_act)
    /\ ui_act' = "none"
    /\ actLog' = [actLog EXCEPT !.status = Append(@, currentStatus')]
    /\ UNCHANGED <<cd_i, iterActs, savedArgs, flagVars, currentMode, restOfUI>>

\* setStatus(SAVING); setLED(YELLOW);
\* StorageManager::savePhoto(getJPEGBuffer(), getJPEGLength(), filename):
\* savedArgs is what the call is handed.  savePhoto returns false at once
\* when the card is unavailable or the length is zero; past that it calls
\* generateFilename(filename), and the card decides whether the file is
\* opened and written in full
UI_SavePhoto ==
    /\ ui_pc = "saving"
    /\ setStatus("SAVING")
    /\ savedArgs' = [len |-> jpegLength, lenBy |-> lenBy,
                     data |-> [i \in 1..Min(jpegLength, MaxJpeg) |-> jpegBuffer[i]]]
    /\ \E card \in {"unavailable", "fails", "writes"} :
          LET accepted == card # "unavailable" /\ jpegLength # 0
              ok == accepted /\ card = "writes" IN
          /\ ui_pc' = IF ok THEN "saved" ELSE "err_save"
          /\ actLog' = [actLog EXCEPT !.status = Append(@, currentStatus'),
                                      !.capture = "ok",
                                      !.save = IF ok THEN "ok" ELSE "fail",
                                      !.filename = accepted]
    /\ UNCHANGED <<busVars, ui_act, cd_i, iterActs, lcdOp, flagVars, currentMode, restOfUI>>

\* setLED(GREEN); LCDManager::displaySaveMessage begins
UI_Saved_Enter ==
    /\ ui_pc = "saved"
    /\ led' = "GREEN"
    /\ Paint_Enter
    /\ lcdOp' = [lcdOp EXCEPT !["ui"] = "displaySaveMessage"]
    /\ ui_pc' = "saved_end"
    /\ savedArgs' = [len |-> 0, lenBy |-> "none", data |-> <<>>]
    /\ UNCHANGED <<ui_act, cd_i, iterActs, actLog, flagVars, currentMode, currentStatus, restOfUI>>

\* a plausible bug: the action returns without setStatus(IDLE)
UI_Saved_Leave_NoIdle ==
    /\ ui_pc = "saved_end"
    /\ Paint_Leave
    /\ lcdOp' = [lcdOp EXCEPT !["ui"] = "none"]
    /\ ui_pc' = AfterCheck(ui_act)
    /\ ui_act' = "none"
    /\ UNCHANGED <<cd_i, iterActs, savedArgs, actLog, flagVars, uiState, restOfUI>>

\* ... delay(STATUS_DISPLAY_MS); setStatus(IDLE); the action returns
UI_Saved_Leave ==
    /\ ui_pc = "saved_end"
    /\ Paint_Leave
    /\ lcdOp' = [lcdOp EXCEPT !["ui"] = "none"]
    /\ setStatus("IDLE")
    /\ ui_pc' = AfterCheck(ui_act)
    /\ ui_act' = "none"
    /\ actLog' = [actLog EXCEPT !.status = Append(@, currentStatus')]
    /\ UNCHANGED <<cd_i, iterActs, savedArgs, flagVars, currentMode, restOfUI>>

\* if (countdownRequested) ...
UI_ReadCountdown ==
    /\ ui_pc = "chk_cd"
    /\ ui_pc' = IF countdownRequested THEN "clr_cd" ELSE AfterCheck("chk_cd")
    /\ UNCHANGED <<busVars, uiLocals, lcdOp, flagVars, uiState, restOfUI>>

\* ... { countdownRequested = false; return true; }
\* handleCountdownCapture: setStatus(CAPTURING); i = COUNTDOWN_SECONDS
UI_ClearCountdown ==
    /\ ui_pc = "clr_cd"
    /\ countdownRequested' = Flag_Cleared(countdownRequested)
    /\ setStatus("CAPTURING")
    /\ cd_i' = COUNTDOWN_SECONDS
    /\ ui_act' = "chk_cd"
    /\ iterActs' = Append(iterActs, "countdown")
    /\ actLog' = [NoAct EXCEPT !.status = <<currentStatus, currentStatus'>>]
    /\ ui_pc' = "cd_loop"
    /\ UNCHANGED <<busVars, savedArgs, lcdOp, captureRequested, modeToggleRequested,
                   reqSinceRead, reqAtCheck, currentMode, restOfUI>>

\* for (i = COUNTDOWN_SECONDS; i > 0; i--) { displayCountdown(i) begins with clear(0x0010)
UI_Countdown_Show ==
    /\ ui_pc = "cd_loop"
    /\ cd_i > 0
    /\ LCD_Clear_Enter
    /\ lcdOp' = [lcdOp EXCEPT !["ui"] = "displayCountdown"]
    /\ ui_pc' = "cd_shown"
    /\ UNCHANGED <<uiLocals, flagVars, uiState, restOfUI>>

\* ... the fill and the number; setLED(RED); delay(500);
UI_Countdown_Blink ==
    /\ ui_pc = "cd_shown"
    /\ LCD_Clear_Leave
    /\ lcdOp' = [lcdOp EXCEPT !["ui"] = "none"]
    /\ led' = "RED"
    /\ ui_pc' = "cd_red"
    /\ UNCHANGED <<uiLocals, flagVars, currentMode, currentStatus, restOfUI>>

\* setLED(OFF); delay(500); i-- }
UI_Countdown_Off ==
    /\ ui_pc = "cd_red"
    /\ led' = "OFF"
    /\ cd_i' = cd_i - 1
    /\ ui_pc' = "cd_loop"
    /\ UNCHANGED <<busVars, ui_act, iterActs, savedArgs, actLog, lcdOp, flagVars,
                   currentMode, currentStatus, restOfUI>>

\* a plausible bug: the loop is left before i has reached 0
UI_Countdown_Capture_Early ==
    /\ ui_pc = "cd_loop"
    /\ cd_i <= 1
    /\ led' = "RED"
    /\ ui_pc' = "capture"
    /\ UNCHANGED <<busVars, uiLocals, lcdOp, flagVars, currentMode, currentStatus, restOfUI>>

\* setLED(RED); if (!CameraManager::captureJPEG()) ...
UI_Countdown_Capture ==
    /\ ui_pc = "cd_loop"
    /\ cd_i = 0
    /\ led' = "RED"
    /\ ui_pc' = "capture"
    /\ UNCHANGED <<busVars, uiLocals, lcdOp, flagVars, currentMode, currentStatus, restOfUI>>

\* vTaskDelay(pdMS_TO_TICKS(50)): the iteration ends
UI_Yield ==
    /\ ui_pc = "delay"
    /\ iterActs' = <<>>
    /\ actLog' = NoAct
    /\ ui_pc' = "chk_mode"
    /\ UNCHANGED <<busVars, ui_act, cd_i, savedArgs, lcdOp, flagVars, uiState, restOfUI>>

-----------------------------------------------------------------------------
(* Spec: both tasks running, with requests arriving at any time *)

Init ==
    /\ BusInit
    /\ dmaSize = DMA_BUFFER_SIZE
    /\ dmaBuffer = <<>>
    /\ callLog = <<>>
    /\ IdleFill
    /\ IdleFrame
    /\ cam_pc = "boot"
    /\ ui_pc = "chk_mode"
    /\ ui_act = "none"
    /\ cd_i = 0
    /\ cj_pc = [t \in Tasks |-> "off"]
    /\ cj_i = [t \in Tasks |-> 0]
    /\ lcdOp = [t \in Tasks |-> "none"]
    /\ isAvailable \in BOOLEAN
    /\ jpegLength = 0
    /\ jpegBuffer = [i \in 1..MaxJpeg |-> "none"]
    /\ lenBy = "none"
    /\ captureRequested = FALSE
    /\ modeToggleRequested = FALSE
    /\ countdownRequested = FALSE
    /\ currentMode = "INSTANT"
    /\ currentStatus = "IDLE"
    /\ led = "OFF"
    /\ reqSinceRead = 0
    /\ reqAtCheck = 0
    /\ iterActs = <<>>
    /\ savedArgs = [len |-> 0, lenBy |-> "none", data |-> <<>>]
    /\ actLog = NoAct
    /\ IdleAux

cameraTask ==
    \/ Cam_Boot_Enter \/ Cam_Boot_Leave \/ Cam_Capture \/ Cam_Decode
    \/ Cam_DisplayFrame \/ Cam_Mode_Enter \/ Cam_Mode_Leave \/ Cam_Delay

uiTask ==
    \/ UI_ReadMode \/ UI_ClearMode \/ UI_ToggleMode \/ UI_Mode_Leave
    \/ UI_ReadCapture \/ UI_ClearCapture \/ UI_HandleCapture \/ UI_Capture
    \/ UI_Error_Enter \/ UI_Error_Leave \/ UI_SavePhoto
    \/ UI_Saved_Enter \/ UI_Saved_Leave
    \/ UI_ReadCountdown \/ UI_ClearCountdown \/ UI_Countdown_Show
    \/ UI_Countdown_Blink \/ UI_Countdown_Off \/ UI_Countdown_Capture \/ UI_Yield

Next ==
    \/ cameraTask
    \/ uiTask
    \/ requestCapture \/ captureButtonISR \/ requestModeToggle \/ requestCountdown

Spec == Init /\ [][Next]_vars

\* The request loop under fair scheduling: uiTask and the request setters.
\* uiTask always has a next statement, and the scheduler (round robin among
\* the equal priorities, with cameraTask blocking in vTaskDelay every
\* iteration) runs it again and again.  captureJPEG's wait loop ends on
\* CAP_DONE or on its timeout, savePhoto returns.  cameraTask's steps are
\* left out: of what it writes uiTask's control reads jpegLength only, as
\* the bound of the burst loop.
RequestLoop ==
    \/ uiTask
    \/ requestCapture \/ captureButtonISR \/ requestModeToggle \/ requestCountdown

FairSpec == Init /\ [][RequestLoop]_vars /\ WF_vars(uiTask)

-----------------------------------------------------------------------------
(* Properties of the two tasks *)

\* task t is inside a transfer on the display bus: inside one of the
\* LCDManager display operations, or inside displayFrame's bulk session
OnDisplayBus(t) == lcdOp[t] # "none" \/ (t = "cam" /\ df_pc = "loop")

\* task t is inside a transfer on the sensor bus: in captureJPEG's burst
\* read, between CS_LOW and CS_HIGH
OnSensorBus(t) == cj_pc[t] = "burst"

\* C6: while a bulk session is active (bulk_active, inside displayFrame), no
\* task is inside another display-bus operation (a clear, a cursor or pixel
\* write of a display operation)
C6_BulkExclusive == bulk_active => \A t \in Tasks : lcdOp[t] = "none"

\* C7: the two tasks are never both inside a transfer on the same bus,
\* neither the sensor bus nor the display bus
C7_BusSeparation ==
    /\ ~(OnSensorBus("cam") /\ OnSensorBus("ui"))
    /\ ~(OnDisplayBus("cam") /\ OnDisplayBus("ui"))

\* C8: what savePhoto is handed is what the captureJPEG call of the same
\* action produced: the length and every byte were written by uiTask's call
C8_SavesOwnFrame ==
    ui_pc \in {"saved", "err_save"} =>
        /\ savedArgs.lenBy = "ui"
        /\ \A i \in DOMAIN savedArgs.data : savedArgs.data[i] = "ui"

\* C9: two capture requests made before a call of isCaptureRequested are
\* coalesced: the call finds the flag set, clears it and triggers one
\* handleCapture, and a later call before which no request was made finds
\* the flag clear and triggers nothing
C9_FlagCoalescing ==
    [][ /\ (ui_pc = "chk_cap" /\ ui_pc' # "chk_cap" /\ reqSinceRead >= 2)
              => ui_pc' = "clr_cap"
        /\ (ui_pc = "clr_cap" /\ ui_pc' # "clr_cap")
              => (ui_pc' = "hc_begin" /\ ~captureRequested' /\ reqSinceRead' = 0)
        /\ (ui_pc = "chk_cap" /\ ui_pc' # "chk_cap" /\ reqSinceRead = 0)
              => (ui_pc' = "chk_cd" /\ ~captureRequested')
      ]_vars

\* handleCapture is about to start for a check that found two requests
C9_Witness == ui_pc = "hc_begin" /\ reqAtCheck = 2 /\ ~captureRequested

\* C10 as stated: at most one capture action (handleCapture or
\* handleCountdownCapture) is begun per iteration of uiTask
C10_AtMostOneHeavy == Len(iterActs) <= 1

\* C10, amended: per iteration the mode toggle is tested before any capture
\* action, and handleCapture and handleCountdownCapture each run at most
\* once, in that order: up to two capture actions per iteration
C10_PriorityOrder ==
    /\ [](iterActs \in {<<>>, <<"capture">>, <<"countdown">>,
                         <<"capture", "countdown">>})
    /\ [][ /\ (ui_pc' # ui_pc /\ ui_pc' \in {"clr_mode", "toggle", "mode_end"})
                 => iterActs' = <<>>
           /\ (ui_pc' # ui_pc /\ ui_pc' = "chk_mode") => ui_pc = "delay"
         ]_vars

\* an iteration that ran both capture actions is about to yield
C10_Witness == ui_pc = "delay" /\ iterActs = <<"capture", "countdown">>

\* a capture action of uiTask has returned
ActionEnded == ui_act = "none" /\ actLog.status # <<>>

\* C11: when captureJPEG fails inside a capture action of uiTask, the status
\* goes Idle, Capturing, Error, Idle, savePhoto is not called in the action
\* and its filename buffer is not written
C11_ErrorScenario ==
    /\ ui_pc = "err_capture" =>
          /\ actLog.status = <<"IDLE", "CAPTURING">>
          /\ actLog.save = "none" /\ ~actLog.filename
    /\ actLog.capture = "fail" =>
          /\ actLog.status = IF ActionEnded
                                THEN <<"IDLE", "CAPTURING", "ERROR", "IDLE">>
                                ELSE <<"IDLE", "CAPTURING", "ERROR">>
          /\ actLog.save = "none" /\ ~actLog.filename

\* a countdown capture whose captureJPEG failed has returned
C11_Witness ==
    /\ ActionEnded /\ actLog.capture = "fail"
    /\ iterActs # <<>> /\ iterActs[Len(iterActs)] = "countdown"

\* C12: the status is Saving only after captureJPEG succeeded in the same
\* action; an action whose save succeeded went Capturing, Saving, Idle, one
\* whose save failed Capturing, Saving, Error, Idle, and every action ends
\* with the status Idle
C12_StatusProtocol ==
    /\ (\E i \in DOMAIN actLog.status : actLog.status[i] = "SAVING")
          => actLog.capture = "ok"
    /\ ui_pc \in {"saving"} => actLog.status = <<"IDLE", "CAPTURING">>
    /\ ActionEnded =>
          /\ currentStatus = "IDLE"
          /\ actLog.status[Len(actLog.status)] = "IDLE"
          /\ actLog.save = "ok"
                => actLog.status = <<"IDLE", "CAPTURING", "SAVING", "IDLE">>
          /\ actLog.save = "fail"
                => actLog.status = <<"IDLE", "CAPTURING", "SAVING", "ERROR", "IDLE">>

\* an instant capture whose save failed has returned
C12_Witness ==
    /\ ActionEnded /\ actLog.save = "fail"
    /\ iterActs = <<"capture">>

\* the operations of f that begin a bus transaction
BeginsIn(f) == {k \in DOMAIN f : f[k].op = "begin"}

\* C25 as stated: a solid fill streams all its chunks inside one open
\* transaction, so once the first chunk is out no further transaction begins
C25_OneTransaction ==
    [][(fill_pc = "loop" /\ wire # <<>>) => BeginsIn(fx') = {}]_vars

\* C25, amended: a solid fill holds CS low and DC high itself, opens no bulk
\* session, and sends every chunk through DEV_SPI_Write_DMA in a
\* transaction of its own: one begin/end pair per chunk
C25_TransactionPerChunk ==
    [][(fill_pc = "loop" /\ remaining' < remaining) =>
          /\ fx' = <<TxnBegin, Bytes("dmaBuffer", 0, remaining - remaining'), TxnEnd>>
          /\ remaining - remaining' = Min(remaining, dmaSize)
          /\ cs = 0 /\ dc = 1 /\ cs' = 0 /\ dc' = 1
          /\ txn' = txn /\ bulk_active' = bulk_active]_vars

\* a fill of three or more chunks has returned
C25_Witness == fill_pc = "done" /\ Len(wire) > 2 * dmaSize

\* C27: DEV_SPI_Write_DMA with len = 0 begins no transaction, transfers
\* nothing and changes no pin or session state; with len > 0 it transfers
\* exactly len bytes inside exactly one begin/end pair
C27_ZeroLengthNoOp ==
    [][(Len(callLog') > Len(callLog)
          /\ callLog'[Len(callLog')].op = "DEV_SPI_Write_DMA") =>
          LET len == callLog'[Len(callLog')].n
              ends == {k \in DOMAIN fx' : fx'[k].op = "end"}
              data == {k \in DOMAIN fx' : fx'[k].op \in {"byte", "bytes"}} IN
          /\ <<bulk_active', cs', dc', txn'>> = <<bulk_active, cs, dc, txn>>
          /\ \A k \in DOMAIN fx' : fx'[k].op # "pin"
          /\ len = 0 => fx' = <<>>
          /\ len > 0 =>
                /\ Cardinality(BeginsIn(fx')) = 1 /\ Cardinality(ends) = 1
                /\ Cardinality(data) = 1
                /\ \A b \in BeginsIn(fx'), d \in data, e \in ends :
                      b < d /\ d < e /\ fx'[d].n = len]_vars

\* an empty write followed by one of MaxLen bytes
C27_Witness ==
    /\ Len(callLog) = 2
    /\ callLog[1] = Call("DEV_SPI_Write_DMA", 0)
    /\ callLog[2] = Call("DEV_SPI_Write_DMA", MaxLen)
    /\ fx = <<TxnBegin, Bytes("dmaBuffer", 0, MaxLen), TxnEnd>>

\* <<x0, y0, x1, y1>> lies on the panel: LCD_Init sets memory access control
\* (0x36) to 0x00, so the controller has LCD_WIDTH columns and LCD_HEIGHT rows
OnPanel(w) ==
    /\ 0 <= w[1] /\ w[1] <= w[3] /\ w[3] < LCD_WIDTH
    /\ 0 <= w[2] /\ w[2] <= w[4] /\ w[4] < LCD_HEIGHT

\* C18: every address window issued by displayFrame, LCD_Clear and
\* LCD_ClearWindow satisfies 0 <= x0 <= x1 < 240 and 0 <= y0 <= y1 < 320
C18_WindowBounds ==
    /\ df_pc = "start" => OnPanel(WindowOf(fx))
    /\ fill_pc = "fillbuf" => OnPanel(window)

\* C15: in every reachable state jpegLength is 0 or within
\* [1, MAX_JPEG_SIZE], also right after a captureJPEG that failed on the length
C15_LengthInvariant == jpegLength \in 0..MaxJpeg

\* C16: captureJPEG writes no byte when the length read is invalid, a
\* successful call has written exactly jpegLength bytes, and no write goes
\* to an index >= MAX_JPEG_SIZE
C16_NoOverrun ==
    [][\A t \in Tasks :
          /\ (cj_pc[t] = "len" /\ cj_pc'[t] = "off") => jpegBuffer' = jpegBuffer
          /\ (cj_pc[t] = "burst" /\ cj_pc'[t] = "off") => cj_i[t] = jpegLength
          /\ cj_i'[t] > cj_i[t] => cj_i[t] < MaxJpeg]_vars

\* captureJPEG of task t is at its return true
CaptureSucceeds(t) == TaskAtCapture(t) /\ cj_pc[t] = "burst" /\ cj_i[t] >= jpegLength

\* C17: cameraTask comes to decodeToFrameBuffer only by a captureJPEG that
\* returns true and to displayFrame only by a decodeToFrameBuffer that
\* returns true, displayFrame touches the display only then, and uiTask
\* comes to savePhoto only by its action's captureJPEG returning true
C17_RenderOrder ==
    [][/\ (cam_pc' = "decode" /\ cam_pc # "decode") => CaptureSucceeds("cam")
       /\ (cam_pc' = "display" /\ cam_pc # "display") =>
              (cam_pc = "decode" /\ jpegLength # 0 /\ df_pc' = "call")
       /\ (cam_pc \in {"capture", "decode"} /\ cam_pc' = "delay") => frameVars' = frameVars
       /\ frameVars' # frameVars => cam_pc' \in {"display", "mode_end"}
       /\ (ui_pc' = "saving" /\ ui_pc # "saving") => CaptureSucceeds("ui")
       /\ (actLog.save = "none" /\ actLog'.save # "none") =>
              (ui_pc = "saving" /\ ui_act # "none")]_vars

\* a frame has been displayed while a photo was being saved
C17_Witness == cam_pc = "display" /\ df_pc = "done" /\ actLog.save = "ok"

\* C22: a failed capture, decode or save, in cameraTask or in a capture
\* action of uiTask, sets the status to Error and later back to Idle
C22_ErrorSurfaces ==
    [][/\ (cam_pc \in {"capture", "decode"} /\ cam_pc' = "delay") =>
              currentStatus' = "ERROR"
       /\ (ui_pc \in {"err_capture", "err_save"} /\ ui_pc' # ui_pc) =>
              currentStatus' = "ERROR"
       /\ (ui_pc = "err_end" /\ ui_pc' # ui_pc) => currentStatus' = "IDLE"]_vars

\* the indicator colour stated for each status
C23_Colour(status) ==
    CASE status = "IDLE" -> "GREEN"
      [] status = "CAPTURING" -> "RED"
      [] status = "SAVING" -> "YELLOW"
      [] status = "STREAMING" -> "CYAN"
      [] status = "ERROR" -> "RED"

\* C23: currentStatus is written only by steps of uiTask, never by
\* cameraTask or a flag writer, and right after every setStatus(s) the LED
\* shows the colour mapped from s
C23_StatusOwnership ==
    [][/\ currentStatus' # currentStatus =>
              (ui_pc' # ui_pc /\ cam_pc' = cam_pc /\ cj_pc'["cam"] = cj_pc["cam"])
       /\ (actLog'.status # actLog.status /\ actLog'.status # <<>>) =>
              /\ currentStatus' = actLog'.status[Len(actLog'.status)]
              /\ led' = C23_Colour(currentStatus')
       /\ \A status \in {"IDLE", "CAPTURING", "SAVING", "STREAMING", "ERROR"} :
              LedFor(status) = C23_Colour(status)]_vars

\* setStatus(SAVING) has run while cameraTask displays a frame
C23_Witness == currentStatus = "SAVING" /\ led = "YELLOW" /\ cam_pc = "display"

\* the three request flags, each with the position of uiTask at which
\* its is*Requested clears it
C24_Flags ==
    { <<captureRequested, captureRequested', "clr_cap">>,
      <<modeToggleRequested, modeToggleRequested', "clr_mode">>,
      <<countdownRequested, countdownRequested', "clr_cd">> }

\* C24: a request flag becomes true only in a step of a flag writer (a
\* request call or an ISR), in which neither task moves, and becomes false
\* only in the clearing statement of uiTask's is*Requested, which always
\* leaves it false
C24_FlagWriters ==
    [][\A f \in C24_Flags :
          /\ (~f[1] /\ f[2]) =>
                (ui_pc' = ui_pc /\ cam_pc' = cam_pc /\ cjVars' = cjVars
                   /\ busVars' = busVars /\ frameVars' = frameVars)
          /\ (f[1] /\ ~f[2]) => ui_pc = f[3]
          /\ (ui_pc = f[3] /\ ui_pc' # ui_pc) => ~f[2]]_vars

\* the mode flag has been cleared by uiTask while a countdown request waits
C24_Witness == ui_pc = "toggle" /\ ~modeToggleRequested /\ countdownRequested

\* captureJPEG of task t returns false from its wait loop in this step
TimesOut(t) ==
    /\ isAvailable /\ cj_pc[t] = "off" /\ cj_pc'[t] = "off"
    /\ IF t = "cam" THEN cam_pc = "capture" /\ cam_pc' = "delay"
                    ELSE ui_pc = "capture" /\ ui_pc' = "err_capture"

\* C26: a captureJPEG that fails by timeout writes no byte of jpegBuffer
\* and no value to jpegLength
C26_TimeoutNoWrite ==
    [][\A t \in Tasks :
          TimesOut(t) => (jpegBuffer' = jpegBuffer /\ jpegLength' = jpegLength)]_vars

\* uiTask's capture has timed out and the frame cameraTask captured is intact
C26_Witness ==
    /\ ui_pc = "err_capture" /\ isAvailable
    /\ jpegLength = MaxJpeg /\ jpegBuffer[MaxJpeg] = "cam" /\ lenBy = "cam"

\* C32: after any sequence of Bulk_Start / Bulk_Data / Bulk_End calls the
\* transactions begun and not ended number 1 while bulk_active is true and
\* 0 while it is false
C32_TransactionBalance ==
    (\A i \in 1..Len(callLog) : callLog[i].op # "DEV_SPI_Write_DMA") =>
        txn = IF bulk_active THEN 1 ELSE 0

\* C33: when cameraTask runs decodeToFrameBuffer, jpegLength and the bytes
\* of jpegBuffer below it are those its own captureJPEG wrote, and
\* jpegLength lies in [1, MAX_JPEG_SIZE]
C33_DecodesOwnFrame ==
    [][(cam_pc = "decode" /\ cam_pc' # cam_pc) =>
          /\ jpegLength \in 1..MaxJpeg
          /\ lenBy = "cam"
          /\ \A i \in 1..jpegLength : jpegBuffer[i] = "cam"]_vars

\* C34: under fair scheduling every request flag that is true is eventually
\* found true by the request loop, cleared, and followed by its action:
\* toggleMode, handleCapture (with the flag clear again), the countdown
C34_NoLostRequest ==
    /\ modeToggleRequested ~> (ui_pc = "toggle")
    /\ captureRequested ~> (ui_pc = "hc_begin" /\ ~captureRequested)
    /\ countdownRequested ~> (ui_pc = "cd_loop" /\ cd_i = COUNTDOWN_SECONDS)

\* a capture request arrives between the loop's read of the flag and its
\* clear, with the other two flags set as well
C34_Witness ==
    /\ ui_pc = "clr_cap"
    /\ captureRequested /\ reqSinceRead > reqAtCheck
    /\ modeToggleRequested /\ countdownRequested

\* C35: under fair scheduling a status of Capturing, Saving or Error is
\* always followed by Idle
C35_ReturnsToIdle ==
    (currentStatus \in {"CAPTURING", "SAVING", "ERROR"}) ~> (currentStatus = "IDLE")

\* a countdown capture whose save failed has gone through Capturing, Saving
\* and Error and is back at Idle
C35_Witness ==
    /\ currentStatus = "IDLE"
    /\ ui_act = "none"
    /\ iterActs = <<"countdown">>
    /\ actLog.status = <<"IDLE", "CAPTURING", "SAVING", "ERROR", "IDLE">>

\* the other mode
C37_Flipped(mode) == IF mode = "INSTANT" THEN "COUNTDOWN" ELSE "INSTANT"

\* C37: currentMode is INSTANT or COUNTDOWN; the mode changes only in
\* toggleMode, which flips it, and flipping twice restores it; toggleMode
\* runs once for each check that found the flag set, however many requests
\* set the flag before that check
C37_ModeToggle ==
    [][/\ currentMode \in {"INSTANT", "COUNTDOWN"}
       /\ C37_Flipped(C37_Flipped(currentMode)) = currentMode
       /\ currentMode' # currentMode => ui_pc = "toggle"
       /\ (ui_pc = "toggle" /\ ui_pc' # ui_pc) =>
             (currentMode' = C37_Flipped(currentMode) /\ ui_pc' = "mode_end")
       /\ (ui_pc' = "toggle" /\ ui_pc # "toggle") =>
             (ui_pc = "clr_mode" /\ ~modeToggleRequested')
       /\ (ui_pc' = "clr_mode" /\ ui_pc # "clr_mode") =>
             (ui_pc = "chk_mode" /\ modeToggleRequested)
       /\ (ui_pc = "chk_mode" /\ ui_pc' # ui_pc /\ ~modeToggleRequested) =>
             ui_pc' = "chk_cap"
       /\ (modeToggleRequested /\ modeToggleRequested') =>
             (ui_pc' = ui_pc \/ ui_pc # "clr_mode")]_vars

\* a second handled toggle has brought the mode back to INSTANT, and a
\* further request is pending
C37_Witness ==
    /\ ui_pc = "mode_end"
    /\ currentMode = "INSTANT"
    /\ modeToggleRequested

\* uiTask is inside the loop of handleCountdownCapture
C30_Counting == ui_pc \in {"cd_loop", "cd_shown", "cd_red"}

\* C30: the countdown runs from COUNTDOWN_SECONDS down to 1, one iteration per
\* value; each iteration shows the number, then turns the indicator red,
\* then off, once; captureJPEG is called only when the last iteration is
\* over; and no request flag is read or cleared while the countdown runs
C30_CountdownCadence ==
    [][/\ (ui_pc = "clr_cd" /\ ui_pc' # ui_pc) =>
             (ui_pc' = "cd_loop" /\ cd_i' = COUNTDOWN_SECONDS)
       /\ (ui_pc = "cd_loop" /\ ui_pc' # ui_pc /\ cd_i > 0) =>
             /\ ui_pc' = "cd_shown"
             /\ cd_i \in 1..COUNTDOWN_SECONDS /\ cd_i' = cd_i
             /\ lcdOp'["ui"] = "displayCountdown"
             /\ led' = led
       /\ (ui_pc = "cd_shown" /\ ui_pc' # ui_pc) =>
             (ui_pc' = "cd_red" /\ led' = "RED" /\ cd_i' = cd_i)
       /\ (ui_pc = "cd_red" /\ ui_pc' # ui_pc) =>
             (ui_pc' = "cd_loop" /\ led' = "OFF" /\ cd_i' = cd_i - 1)
       /\ (C30_Counting /\ ui_pc' = ui_pc) => (led' = led /\ cd_i' = cd_i)
       /\ (C30_Counting /\ ui_pc' = "capture") =>
             (ui_pc = "cd_loop" /\ cd_i = 0 /\ led = "OFF" /\ led' = "RED")
       /\ C30_Counting =>
             /\ cj_pc["ui"] = "off" /\ cj_pc'["ui"] = "off"
             /\ ui_pc' \in {"cd_loop", "cd_shown", "cd_red", "capture"}
             /\ iterActs' = iterActs
             /\ \A f \in {<<captureRequested, captureRequested'>>,
                           <<modeToggleRequested, modeToggleRequested'>>,
                           <<countdownRequested, countdownRequested'>>} :
                    f[2] # f[1] => f[2]]_vars

\* the countdown has run to its end and the capture is about to start, with
\* a request that arrived during the countdown still pending
C30_Witness ==
    /\ ui_pc = "capture"
    /\ iterActs # <<>> /\ iterActs[Len(iterActs)] = "countdown"
    /\ cd_i = 0 /\ led = "RED"
    /\ cj_pc["ui"] = "off"
    /\ modeToggleRequested

-----------------------------------------------------------------------------
(* SpecTimeout: the wait loop of CameraManager::captureJPEG against the    *)
(* millisecond clock.  millis() is unsigned and wraps; one iteration of    *)
(* the loop (get_bit, the test, delay(1)) lasts POLL_MS when nothing else  *)
(* runs and up to MaxTick when the task is preempted by the other task of  *)
(* its priority.                                                           *)

restOfTimer ==
    <<busVars, callLog, fillVars, frameVars, taskVars, decoder, camOps, sd, web, ser, btn>>

\* millis() - startTime, in unsigned arithmetic
Elapsed(now, start) == (now - start + ClockWrap) % ClockWrap

\* a plausible bug: >= in place of >
Expired_Inclusive(now, start) == Elapsed(now, start) >= CAPTURE_TIMEOUT_MS

\* if (millis() - startTime > 1000)
Expired(now, start) == Elapsed(now, start) > CAPTURE_TIMEOUT_MS

\* start_capture(); uint32_t startTime = millis();
T_Start ==
    /\ timer.pc = "begin"
    /\ timer' = [timer EXCEPT !.pc = "test", !.start = timer.now]
    /\ UNCHANGED restOfTimer

\* while (!camera->get_bit(ARDUCHIP_TRIG, CAP_DONE_MASK))
T_GetBit ==
    /\ timer.pc = "test"
    /\ timer' = [timer EXCEPT !.pc = IF timer.done THEN "captured" ELSE "check"]
    /\ UNCHANGED restOfTimer

\* if (millis() - startTime > 1000) return false;
T_Check ==
    /\ timer.pc = "check"
    /\ timer' = [timer EXCEPT !.pc = IF Expired(timer.now, timer.start)
                                       THEN "timeout" ELSE "delay"]
    /\ UNCHANGED restOfTimer

\* delay(1): the clock has advanced by the time the loop tests again
T_Delay ==
    /\ timer.pc = "delay"
    /\ \E d \in POLL_MS..MaxTick :
          timer' = [timer EXCEPT !.pc = "test", !.step = d,
                                 !.now = (timer.now + d) % ClockWrap]
    /\ UNCHANGED restOfTimer

\* the sensor finishes the capture
T_SensorDone ==
    /\ timer.pc \in {"test", "check", "delay"}
    /\ ~timer.done
    /\ timer' = [timer EXCEPT !.done = TRUE]
    /\ UNCHANGED restOfTimer

StartTimes == {0, 7, ClockWrap - 500, ClockWrap - 1}

InitTimeout ==
    /\ BusInit
    /\ dmaSize = DMA_BUFFER_SIZE
    /\ dmaBuffer = <<>>
    /\ callLog = <<>>
    /\ IdleFill
    /\ IdleFrame
    /\ IdleTasks
    /\ IdleDecoder
    /\ IdleCamera
    /\ IdleStorage
    /\ IdleWeb
    /\ IdleSerial
    /\ IdleButton
    /\ \E t0 \in StartTimes :
          timer = [pc |-> "begin", now |-> t0, start |-> 0, step |-> 0, done |-> FALSE]

NextTimeout == T_Start \/ T_GetBit \/ T_Check \/ T_Delay \/ T_SensorDone

SpecTimeout == InitTimeout /\ [][NextTimeout]_vars

\* C13 as stated: with the done flag never set, captureJPEG fails after an
\* elapsed time of at least the timeout and at most the timeout plus the
\* poll interval
C13_TimeoutWindow ==
    (timer.pc = "timeout" /\ ~timer.done) =>
        /\ Elapsed(timer.now, timer.start) >= CAPTURE_TIMEOUT_MS
        /\ Elapsed(timer.now, timer.start) <= CAPTURE_TIMEOUT_MS + POLL_MS

\* C13, amended: captureJPEG fails only after more than the timeout has
\* elapsed and at most the timeout plus the time its last loop iteration
\* took; it reports a capture only when the done flag was set
C13_Timeout ==
    /\ timer.pc = "timeout" =>
          /\ Elapsed(timer.now, timer.start) > CAPTURE_TIMEOUT_MS
          /\ Elapsed(timer.now, timer.start) <= CAPTURE_TIMEOUT_MS + timer.step
    /\ timer.pc = "captured" => timer.done

\* a timeout with the flag never set, the clock having wrapped meanwhile
C13_Witness ==
    /\ timer.pc = "timeout" /\ ~timer.done
    /\ timer.now < timer.start

-----------------------------------------------------------------------------
(* SpecDecode: CameraManager::decodeToFrameBuffer, called again and again  *)
(* on whatever captureJPEG left in jpegBuffer / jpegLength.  The decoder   *)
(* hands the picture to tjpgCallback block by block and may fail at any    *)
(* block of a damaged stream.  A pixel is 0 (cleared) or a colour 1..2.    *)

restOfDecode ==
    <<busVars, callLog, fillVars, frameVars, taskVars, timer, camOps, sd, web, ser, btn>>

\* if (jpegLength == 0) return false;  memset(frameBuffer, 0, ...);
D_Call ==
    /\ decoder.pc = "idle"
    /\ \E len \in 0..MaxJpeg :
          decoder' = IF len = 0
                     THEN [decoder EXCEPT !.pc = "failed"]
                     ELSE [decoder EXCEPT !.pc = "drawJpg", !.blocks = 0,
                                          !.frameBuffer = [i \in 1..MaxPix |-> 0]]
    /\ UNCHANGED restOfDecode

\* tjpgCallback: pixels beyond the frame are dropped, the others stored
D_Block ==
    /\ decoder.pc = "drawJpg"
    /\ decoder.blocks < MaxBlocks
    /\ \E pixel \in 1..2 :
          LET k == decoder.blocks + 1
          IN  decoder' = [decoder EXCEPT !.blocks = k,
                             !.frameBuffer = IF k > MaxPix THEN @
                                             ELSE [@ EXCEPT ![k] = pixel]]
    /\ UNCHANGED restOfDecode

\* result = TJpgDec.drawJpg(...); if (result != JDR_OK) return false; return true;
D_Result ==
    /\ decoder.pc = "drawJpg"
    /\ decoder' = [decoder EXCEPT !.pc = IF decoder.blocks = MaxBlocks
                                          THEN "decoded" ELSE "failed"]
    /\ UNCHANGED restOfDecode

\* the caller goes on and calls decodeToFrameBuffer again later
D_Return ==
    /\ decoder.pc \in {"decoded", "failed"}
    /\ decoder' = [decoder EXCEPT !.pc = "idle"]
    /\ UNCHANGED restOfDecode

InitDecode ==
    /\ BusInit
    /\ dmaSize = DMA_BUFFER_SIZE
    /\ dmaBuffer = <<>>
    /\ callLog = <<>>
    /\ IdleFill
    /\ IdleFrame
    /\ IdleTasks
    /\ IdleAux

NextDecode == D_Call \/ D_Block \/ D_Result \/ D_Return

SpecDecode == InitDecode /\ [][NextDecode]_vars

\* C14: after a call of decodeToFrameBuffer that returned false every byte
\* of frameBuffer is zero
C14_ClearedOnFailure ==
    decoder.pc = "failed" => \A i \in 1..MaxPix : decoder.frameBuffer[i] = 0

-----------------------------------------------------------------------------
(* SpecCamera: CameraManager::init, then any of the public camera          *)
(* operations in any order.  The log holds, for each operation, whether it *)
(* accessed the sensor (its SPI or its I2C registers) and what it          *)
(* returned; setQuality and setEffect return void.                         *)

restOfCamera ==
    <<busVars, callLog, fillVars, frameVars, cam_pc, ui_pc, uiLocals, cjVars, lcdOp,
      jpegBuffer, lenBy, flagVars, uiState, timer, decoder, sd, web, ser, btn>>

Logged(op, access, result) ==
    /\ camOps.init # "none"
    /\ Len(camOps.log) < MaxOps
    /\ camOps' = [camOps EXCEPT !.log = Append(@, [op |-> op, access |-> access,
                                                     result |-> result])]

\* if ((vid != 0x26) || (pid != 0x42)) { isAvailable = false; return; }
\* ... isAvailable = true;
CameraManager_init ==
    /\ camOps.init = "none"
    /\ \E identified \in BOOLEAN :
          /\ isAvailable' = identified
          /\ camOps' = [camOps EXCEPT !.init = IF identified THEN "ok" ELSE "failed"]
    /\ UNCHANGED <<jpegLength, restOfCamera>>

\* if (!isAvailable) return false; otherwise the capture as in CJ_Start .. CJ_Done
Op_captureJPEG ==
    /\ IF ~isAvailable
         THEN Logged("captureJPEG", FALSE, "false") /\ UNCHANGED jpegLength
         ELSE \/ Logged("captureJPEG", TRUE, "false") /\ UNCHANGED jpegLength
              \/ \E n \in 0..(MaxJpeg + 1) :
                    /\ jpegLength' = n
                    /\ Logged("captureJPEG", TRUE,
                              IF n = 0 \/ n > MaxJpeg THEN "false" ELSE "true")
    /\ UNCHANGED <<isAvailable, restOfCamera>>

\* if (jpegLength == 0) return false; ... drawJpg on jpegBuffer: no sensor access
Op_decodeToFrameBuffer ==
    /\ \E decoded \in BOOLEAN :
          Logged("decodeToFrameBuffer", FALSE,
                 IF jpegLength # 0 /\ decoded THEN "true" ELSE "false")
    /\ UNCHANGED <<isAvailable, jpegLength, restOfCamera>>

\* camera->OV2640_set_JPEG_size(OV2640_320x240);
Op_setQuality ==
    /\ Logged("setQuality", TRUE, "void")
    /\ UNCHANGED <<isAvailable, jpegLength, restOfCamera>>

\* camera->OV2640_set_Special_effects(effect);
Op_setEffect ==
    /\ Logged("setEffect", TRUE, "void")
    /\ UNCHANGED <<isAvailable, jpegLength, restOfCamera>>

InitCamera ==
    /\ BusInit
    /\ dmaSize = DMA_BUFFER_SIZE
    /\ dmaBuffer = <<>>
    /\ callLog = <<>>
    /\ IdleFill
    /\ IdleFrame
    /\ IdleTasks
    /\ IdleAux

NextCamera ==
    \/ CameraManager_init
    \/ Op_captureJPEG
    \/ Op_decodeToFrameBuffer
    \/ Op_setQuality
    \/ Op_setEffect

SpecCamera == InitCamera /\ [][NextCamera]_vars

\* C19: once init has failed the identity check isAvailable stays false and
\* every later camera operation accesses no sensor and reports failure
C19_InitFailurePermanent ==
    camOps.init = "failed" =>
        /\ ~isAvailable
        /\ \A i \in DOMAIN camOps.log :
              ~camOps.log[i].access /\ camOps.log[i].result = "false"

-----------------------------------------------------------------------------
(* SpecStorage: StorageManager on an available card.  A photo is named by  *)
(* its number, the NNNN of /photos/IMG_NNNN.jpg.  init seeds photoCount    *)
(* from countPhotos(), which it calls while isAvailable is still false, so *)
(* the seed is 0 whatever the card holds.                                  *)

restOfStorage ==
    <<busVars, callLog, fillVars, frameVars, taskVars, timer, decoder, camOps, web, ser, btn>>

\* snprintf(buffer, ..., "%s/%s%04d.jpg", PHOTO_DIR, PHOTO_PREFIX, photoCount + 1)
generateFilename(photoCount) == (photoCount + 1) % CountWrap

\* savePhoto with data and a non-zero length: generateFilename; SD.open;
\* file.write; photoCount++ only when all was written
savePhoto ==
    /\ Len(sd.saved) < MaxSaves
    /\ \E card \in {"open_fails", "short_write", "writes"} :
          LET filename == generateFilename(sd.photoCount) IN
          sd' = CASE card = "open_fails" -> sd
                  [] card = "short_write" -> [sd EXCEPT !.files = @ \cup {filename}]
                  [] OTHER -> [sd EXCEPT !.files = @ \cup {filename},
                                         !.saved = Append(@, filename),
                                         !.photoCount = (@ + 1) % CountWrap]
    /\ UNCHANGED restOfStorage

\* if (SD.remove(filename)) { photoCount--; return true; } return false;
deletePhoto ==
    /\ \E filename \in 0..(CountWrap - 1) :
          sd' = IF filename \in sd.files
                THEN [sd EXCEPT !.files = @ \ {filename},
                                !.photoCount = (@ + CountWrap - 1) % CountWrap]
                ELSE sd
    /\ UNCHANGED restOfStorage

\* the card as StorageManager::init finds it: empty, or with photos of an
\* earlier run
InitStorage ==
    /\ BusInit
    /\ dmaSize = DMA_BUFFER_SIZE
    /\ dmaBuffer = <<>>
    /\ callLog = <<>>
    /\ IdleFill
    /\ IdleFrame
    /\ IdleTasks
    /\ IdleTimer /\ IdleDecoder /\ IdleCamera /\ IdleWeb /\ IdleSerial /\ IdleButton
    /\ \E earlier \in {{}, {1}, {1, 2}} :
          sd = [photoCount |-> 0, files |-> earlier, saved |-> <<>>]

NextStorage == savePhoto \/ deletePhoto

SpecStorage == InitStorage /\ [][NextStorage]_vars

\* C20: no two successful saves generate the same filename, and a
\* successful save never targets the name of a photo that still exists
C20_UniqueNames ==
    [][Len(sd'.saved) > Len(sd.saved) =>
          LET filename == sd'.saved[Len(sd'.saved)] IN
          /\ filename \notin sd.files
          /\ \A i \in DOMAIN sd.saved : sd.saved[i] # filename]_vars

\* C36: photoCount is the number of .jpg files in the photo directory (the
\* count at startup plus the successful saves minus the successful
\* deletes), a failed save or delete leaves it unchanged, and it never
\* passes below 0
C36_CounterConsistency ==
    /\ sd.photoCount = Cardinality(sd.files)
    /\ sd.photoCount # CountWrap - 1

-----------------------------------------------------------------------------
(* SpecStream: the web server's handleStream, run by the Arduino loop task *)
(* on the other core, beside cameraTask.  It reads the length, then hands  *)
(* jpegBuffer to send_P, which copies it out to the client.                *)

restOfWeb ==
    <<busVars, callLog, fillVars, frameVars, taskVars, timer, decoder, camOps, sd, ser, btn>>

\* jpegLen = getJPEGLength(); if (jpegLen == 0 || jpegLen > MAX_JPEG_SIZE) send(503)
handleStream_Begin ==
    /\ web.pc = "idle"
    /\ web' = IF jpegLength = 0 \/ jpegLength > MaxJpeg
              THEN [pc |-> "idle", jpegLen |-> jpegLength, sent |-> <<>>]
              ELSE [pc |-> "send_P", jpegLen |-> jpegLength, sent |-> <<>>]
    /\ UNCHANGED restOfWeb

\* server.send_P(200, "image/jpeg", getJPEGBuffer(), jpegLen): one byte read
handleStream_Send ==
    /\ web.pc = "send_P"
    /\ LET i == Len(web.sent) + 1 IN
       web' = [web EXCEPT !.sent = Append(@, jpegBuffer[i]),
                          !.pc = IF i = web.jpegLen THEN "idle" ELSE "send_P"]
    /\ UNCHANGED restOfWeb

NextStream == cameraTask \/ handleStream_Begin \/ handleStream_Send

SpecStream == Init /\ [][NextStream]_vars

\* C21: the handlers of the request surface never touch the frame buffers:
\* no state is reachable in which a network handler reads jpegBuffer while a
\* capture is writing it
C21_RequestIsolation ==
    ~(web.pc = "send_P" /\ \E t \in Tasks : cj_pc[t] = "burst")

-----------------------------------------------------------------------------
(* SpecDebounce: stitch_cam_v4's UIManager.  captureButtonISR only sets    *)
(* the flag; checkCaptureButton, polled from the main loop, debounces      *)
(* against the time of its own last acceptance.  The loop calls it when    *)
(* it comes round, which after an accepted press is when the capture has   *)
(* been carried out.                                                       *)

restOfButton ==
    <<busVars, callLog, fillVars, frameVars, taskVars, timer, decoder, camOps, sd, web, ser>>

\* millis() advances
B_Tick ==
    /\ btn.now < MaxNow
    /\ btn' = [btn EXCEPT !.now = @ + 1]
    /\ UNCHANGED restOfButton

\* captureButtonISR: captureRequested = true;
B_captureButtonISR ==
    /\ btn' = [btn EXCEPT !.captureRequested = TRUE, !.flaggedAt = btn.now]
    /\ UNCHANGED restOfButton

\* checkCaptureButton: if (captureRequested) { now = millis(); ... } return false;
B_Read ==
    /\ btn.pc = "idle"
    /\ btn' = IF btn.captureRequested
              THEN [btn EXCEPT !.pc = "test", !.t = btn.now, !.ret = "none"]
              ELSE [btn EXCEPT !.ret = "false"]
    /\ UNCHANGED restOfButton

\* now - lastPress > UIConfig::BUTTON_DEBOUNCE_MS, in unsigned arithmetic
DebouncePassed(now, lastPress) == Elapsed(now, lastPress) > BUTTON_DEBOUNCE_MS

\* if (now - lastPress > BUTTON_DEBOUNCE_MS)
\*     { captureRequested = false; lastPress = now; return true; }
\* captureRequested = false; return false;
B_Test ==
    /\ btn.pc = "test"
    /\ btn' = IF DebouncePassed(btn.t, btn.lastPress)
              THEN [btn EXCEPT !.captureRequested = FALSE, !.lastPress = btn.t,
                               !.accepted = Min(@ + 1, 2), !.ret = "true",
                               !.pc = "idle"]
              ELSE [btn EXCEPT !.captureRequested = FALSE, !.ret = "false",
                               !.pc = "idle"]
    /\ UNCHANGED restOfButton

InitDebounce ==
    /\ BusInit
    /\ dmaSize = DMA_BUFFER_SIZE
    /\ dmaBuffer = <<>>
    /\ callLog = <<>>
    /\ IdleFill
    /\ IdleFrame
    /\ IdleTasks
    /\ IdleAux

NextDebounce == B_Tick \/ B_captureButtonISR \/ B_Read \/ B_Test

SpecDebounce == InitDebounce /\ [][NextDebounce]_vars

\* C39: a call of checkCaptureButton that found the flag set leaves it
\* clear; it returns true only if more than BUTTON_DEBOUNCE_MS have passed
\* since the last accepted press; and a press flagged within
\* BUTTON_DEBOUNCE_MS of the last accepted press is discarded: the call
\* that finds it returns false
C39_PolledDebounce ==
    [][(btn.pc = "test" /\ btn'.pc = "idle") =>
          /\ ~btn'.captureRequested
          /\ btn'.ret = "true" => Elapsed(btn.t, btn.lastPress) > BUTTON_DEBOUNCE_MS
          /\ (btn.accepted > 0
                /\ Elapsed(btn.flaggedAt, btn.lastPress) <= BUTTON_DEBOUNCE_MS) =>
                btn'.ret = "false"]_vars

-----------------------------------------------------------------------------
(* SpecSerial: one call of one of the functions that lay a 16-bit value    *)
(* out as two bytes: a solid fill with the build's DMA_BUFFER_SIZE,        *)
(* LCD_SetCursor, LCD_WriteData_Word, or tjpgCallback on one block; or one *)
(* call of displayFrame, LCD_WriteReg, LCD_WriteData_Byte or a backlight   *)
(* setter.  The call runs alone.                                           *)

restOfSerial ==
    <<callLog, fillVars, frameVars, taskVars, timer, decoder, camOps, sd, web, btn>>

\* a plausible bug: > in place of >=
Clipped_OffByOne(v, limit) == v > limit

\* if ((y + row) >= FRAME_HEIGHT) break;  if ((x + col) >= FRAME_WIDTH) break;
\* the operands are promoted to int, so the comparison is signed
Clipped(v, limit) == v >= limit

\* the bytes the callback stores, as <<index into frameBuffer, byte>>.  The
\* loops break at the first row and the first column beyond the frame;
\* dstIdx is computed in int (no overflow for these operands)
tjpgCallback(x, y, w, h, bitmap) ==
    UNION { LET dstIdx == ((y + row) * FRAME_WIDTH + (x + col)) * 2
                pixel == bitmap[row * w + col + 1]
            IN  {<<dstIdx, Hi(pixel)>>, <<dstIdx + 1, pixel % 256>>} :
            row \in {r \in 0..(h - 1) : ~Clipped(y + r, FRAME_HEIGHT)},
            col \in {c \in 0..(w - 1) : ~Clipped(x + c, FRAME_WIDTH)} }

\* 16-bit values whose two bytes differ
Words == {0, 239, 258, 319, 4660, 63488}

\* blocks as drawJpg(0, 0, ...) hands them over: positions from 0 upwards,
\* inside the frame, across its right and bottom edge, and beyond it
\* (up to the largest int16_t)
BlockXs == {0, 8, FRAME_WIDTH - 2, FRAME_WIDTH - 1, FRAME_WIDTH, FRAME_WIDTH + 8, 32767}
BlockYs == {0, 8, FRAME_HEIGHT - 2, FRAME_HEIGHT - 1, FRAME_HEIGHT, FRAME_HEIGHT + 8, 32767}

Ser_SetCursor ==
    /\ fill_pc = "idle" /\ df_pc = "idle" /\ ser.fn = "none"
    /\ \E Xstart \in Words, Ystart \in {0, 258}, Xend \in Words, Yend \in {239, 319} :
          /\ LCD_SetCursor(Xstart, Ystart, Xend, Yend)
          /\ ser' = [fn |-> "LCD_SetCursor", args |-> <<Xstart, Ystart, Xend, Yend>>,
                     written |-> {}]
    /\ UNCHANGED <<dmaBuffer, restOfSerial>>

Ser_WriteData_Word ==
    /\ fill_pc = "idle" /\ df_pc = "idle" /\ ser.fn = "none"
    /\ \E da \in Words :
          /\ fx' = LCD_WriteData_Word_fx(da)
          /\ ser' = [fn |-> "LCD_WriteData_Word", args |-> <<da>>, written |-> {}]
    /\ cs' = 1
    /\ dc' = 1
    /\ UNCHANGED <<bulk_active, txn, dmaSize, dmaBuffer, restOfSerial>>

Ser_WriteReg ==
    /\ fill_pc = "idle" /\ df_pc = "idle" /\ ser.fn = "none"
    /\ \E da \in {0, 42, 43, 44, 54, 255} :
          /\ fx' = LCD_WriteReg_fx(da)
          /\ ser' = [fn |-> "LCD_WriteReg", args |-> <<da>>, written |-> {}]
    /\ cs' = 1
    /\ dc' = 0
    /\ UNCHANGED <<bulk_active, txn, dmaSize, dmaBuffer, restOfSerial>>

Ser_WriteData_Byte ==
    /\ fill_pc = "idle" /\ df_pc = "idle" /\ ser.fn = "none"
    /\ \E da \in {0, 1, 128, 255} :
          /\ fx' = LCD_WriteData_Byte_fx(da)
          /\ ser' = [fn |-> "LCD_WriteData_Byte", args |-> <<da>>, written |-> {}]
    /\ cs' = 1
    /\ dc' = 1
    /\ UNCHANGED <<bulk_active, txn, dmaSize, dmaBuffer, restOfSerial>>

Ser_tjpgCallback ==
    /\ fill_pc = "idle" /\ df_pc = "idle" /\ ser.fn = "none"
    /\ \E x \in BlockXs, y \in BlockYs, w \in 1..MaxBlockW, h \in 1..MaxBlockH,
          first \in {4660, 65535} :
          LET bitmap == [k \in 1..(w * h) |-> (first + k - 1) % 65536] IN
          ser' = [fn |-> "tjpgCallback", args |-> <<x, y, w, h, bitmap>>,
                  written |-> tjpgCallback(x, y, w, h, bitmap)]
    /\ UNCHANGED <<busVars, restOfSerial>>

\* a plausible bug: no clamp
ClampPercent_None(Value) == Value

\* if (Value > 100) Value = 100;
ClampPercent(Value) == IF Value > 100 THEN 100 ELSE Value

\* (Value * 2.55) converted to the uint32_t duty of ledcWrite: the product
\* is taken in double and truncated.  2.55 is not a double; the nearest one
\* lies below it, and of the products that would be integers (Value a
\* multiple of 20) the one for 100 rounds to the double below 255, so that
\* it truncates to 254
DutyOf(Value) == IF Value = 100 THEN 254 ELSE (Value * 255) \div 100

\* LCD_SetBacklight(UWORD Value): the duty handed to ledcWrite
LCD_SetBacklight(Value) == DutyOf(ClampPercent(U16(Value)))

\* LCDManager::setBacklight(uint8_t percent)
setBacklight(percent) == LCD_SetBacklight(ClampPercent(U8(percent)))

\* requested values: every percentage, 101, and the ends of the 8- and 16-bit ranges
Percents == 0..101 \cup {200, 255}

Ser_LCD_SetBacklight ==
    /\ fill_pc = "idle" /\ df_pc = "idle" /\ ser.fn = "none"
    /\ \E Value \in Percents \cup {256, 65535} :
          ser' = [fn |-> "LCD_SetBacklight", args |-> <<Value>>,
                  written |-> {<<0, LCD_SetBacklight(Value)>>}]
    /\ UNCHANGED <<busVars, restOfSerial>>

Ser_setBacklight ==
    /\ fill_pc = "idle" /\ df_pc = "idle" /\ ser.fn = "none"
    /\ \E percent \in Percents :
          ser' = [fn |-> "setBacklight", args |-> <<percent>>,
                  written |-> {<<0, setBacklight(percent)>>}]
    /\ UNCHANGED <<busVars, restOfSerial>>

InitSerial ==
    /\ BusInit
    /\ dmaSize = DMA_BUFFER_SIZE
    /\ dmaBuffer = [k \in 1..dmaSize |-> 0]
    /\ callLog = <<>>
    /\ \/ /\ fill_pc = "call"
          /\ fillArgs \in WindowCalls \cup ClearCalls
          /\ remaining = 0
          /\ wire = <<>>
          /\ window = <<0, 0, 0, 0>>
          /\ IdleFrame
       \/ /\ IdleFill
          /\ df_pc = "call"
          /\ frameDims = [w |-> FRAME_WIDTH, h |-> FRAME_HEIGHT]
          /\ framePtr \in {"frameBuffer", "NULL"}
          /\ offset = 0
          /\ chunks = <<>>
          /\ streamed = 0
       \/ IdleFill /\ IdleFrame
    /\ IdleTasks
    /\ IdleAux

NextSerial ==
    \/ Fill_SetCursor \/ Fill_Buffer \/ Fill_Chunk \/ Fill_End
    \/ Frame_SetCursor \/ Frame_Start \/ Frame_Chunk \/ Frame_End
    \/ Ser_WriteReg \/ Ser_WriteData_Byte
    \/ Ser_SetCursor \/ Ser_WriteData_Word \/ Ser_tjpgCallback
    \/ Ser_LCD_SetBacklight \/ Ser_setBacklight

SpecSerial == InitSerial /\ [][NextSerial]_vars

\* the pixels of the block of ser.args that lie inside the frame, as <<row, col>>
C28_InFrame ==
    LET a == ser.args IN
    {rc \in (0..(a[4] - 1)) \X (0..(a[3] - 1)) :
        a[2] + rc[1] < FRAME_HEIGHT /\ a[1] + rc[2] < FRAME_WIDTH}

\* C28: for every block the decoder passes, every index written lies in
\* [0, FRAME_BUFFER_SIZE), the pixels beyond the frame's width or height are
\* skipped, and every pixel inside it is written at
\* ((y+row)*FRAME_WIDTH + (x+col))*2
C28_CallbackClipping ==
    ser.fn = "tjpgCallback" =>
        LET a == ser.args
            at(rc) == ((a[2] + rc[1]) * FRAME_WIDTH + (a[1] + rc[2])) * 2 IN
        /\ \A wr \in ser.written : 0 <= wr[1] /\ wr[1] < FRAME_BUFFER_SIZE
        /\ {wr[1] : wr \in ser.written} =
              UNION {{at(rc), at(rc) + 1} : rc \in C28_InFrame}
        /\ Cardinality(ser.written) = 2 * Cardinality(C28_InFrame)

\* a block across the bottom right corner of the frame: one pixel stored,
\* three skipped
C28_Witness ==
    /\ ser.fn = "tjpgCallback"
    /\ ser.args[1] = FRAME_WIDTH - 1 /\ ser.args[2] = FRAME_HEIGHT - 1
    /\ ser.args[3] = 2 /\ ser.args[4] = 2
    /\ Cardinality(ser.written) = 2

\* the bytes of fx in the order sent, as <<"cmd" or "data", value>>
C29_Sent ==
    LET b == SelectSeq(fx, LAMBDA e : e.op = "byte") IN
    [i \in 1..Len(b) |-> <<b[i].a, b[i].v>>]

\* value >> 8, then value & 0xFF
C29_HighFirst(value) == <<<<"data", value \div 256>>, <<"data", value % 256>>>>

\* C29: LCD_SetCursor sends 0x2A, Xstart, Xend, 0x2B, Ystart, Yend, 0x2C with
\* every coordinate as (value>>8, value&0xFF); LCD_WriteData_Word and the
\* solid fill send every colour as (colour>>8, colour&0xFF); tjpgCallback
\* stores every pixel as (pixel>>8, pixel&0xFF) at consecutive offsets
C29_HighByteFirst ==
    /\ ser.fn = "LCD_SetCursor" =>
          C29_Sent = <<<<"cmd", 42>>>> \o C29_HighFirst(ser.args[1])
                       \o C29_HighFirst(ser.args[3])
                       \o <<<<"cmd", 43>>>> \o C29_HighFirst(ser.args[2])
                       \o C29_HighFirst(ser.args[4]) \o <<<<"cmd", 44>>>>
    /\ ser.fn = "LCD_WriteData_Word" => C29_Sent = C29_HighFirst(ser.args[1])
    /\ fill_pc = "done" =>
          /\ Len(wire) % 2 = 0
          /\ \A i \in 1..(Len(wire) \div 2) :
                <<wire[2 * i - 1], wire[2 * i]>> =
                    <<fillArgs.color \div 256, fillArgs.color % 256>>
    /\ ser.fn = "tjpgCallback" =>
          LET a == ser.args IN
          \A rc \in C28_InFrame :
              LET at == ((a[2] + rc[1]) * FRAME_WIDTH + (a[1] + rc[2])) * 2
                  pixel == a[5][rc[1] * a[3] + rc[2] + 1] IN
              {wr \in ser.written : wr[1] \in {at, at + 1}} =
                  {<<at, pixel \div 256>>, <<at + 1, pixel % 256>>}

\* a cursor call whose x coordinates have different high and low bytes
C29_Witness ==
    /\ ser.fn = "LCD_SetCursor"
    /\ ser.args = <<258, 0, 319, 239>>
    /\ Len(C29_Sent) = 11
    /\ C29_Sent[2] = <<"data", 1>> /\ C29_Sent[3] = <<"data", 2>>

\* the duty written by the backlight call of this state
C31_Duty == (CHOOSE wr \in ser.written : TRUE)[2]

\* C31: a requested value above 100 gives the duty of 100; the duty lies in
\* 0..255; a larger request never gives a smaller duty; 0 gives duty 0
C31_BacklightClamp ==
    ser.fn \in {"LCD_SetBacklight", "setBacklight"} =>
        LET Value == ser.args[1]
            duty(v) == IF ser.fn = "setBacklight" THEN setBacklight(v)
                                                  ELSE LCD_SetBacklight(v) IN
        /\ ser.written = {<<0, C31_Duty>>}
        /\ Value > 100 => C31_Duty = duty(100)
        /\ C31_Duty \in 0..255
        /\ \A v \in Percents : v <= Value => duty(v) <= C31_Duty
        /\ Value = 0 => C31_Duty = 0

\* the largest UWORD is requested and the duty is that of 100
C31_Witness ==
    /\ ser.fn = "LCD_SetBacklight"
    /\ ser.args = <<65535>>
    /\ C31_Duty = 254

\* a display operation has returned
C38_Returned ==
    \/ ser.fn \in {"LCD_WriteReg", "LCD_WriteData_Byte", "LCD_WriteData_Word",
                   "LCD_SetCursor"}
    \/ fill_pc = "done"
    \/ df_pc = "done"

\* C38: when a display operation that ran alone has returned, chip-select
\* is high, no transaction is open and bulk_active is false; the last thing
\* an operation that touched the bus did was to raise chip-select, and the
\* register, byte, word and cursor writes ended every transaction they began
C38_BusQuiescent ==
    C38_Returned =>
        /\ cs = 1
        /\ txn = 0
        /\ ~bulk_active
        /\ fx # <<>> => fx[Len(fx)] = Pin("CS", 1)
        /\ ser.fn # "none" =>
              Cardinality(BeginsIn(fx)) =
                  Cardinality({k \in DOMAIN fx : fx[k].op = "end"})

\* displayFrame has streamed the whole frame and returned
C38_Witness ==
    /\ df_pc = "done"
    /\ framePtr = "frameBuffer"
    /\ streamed = FRAME_BUFFER_SIZE
    /\ fx = <<TxnEnd, Pin("CS", 1)>>

=============================================================================
